---- MODULE Spec2Model ----
(***************************************************************************)
(* Model of the BAS 29.3.1 enterprise XML generator                        *)
(* (src/bas_29_3_1_enterprise_xml_generator.py): the section tasks run on  *)
(* a thread pool, the collection of their results with as_completed, the   *)
(* merge into the root document, the file write, the padding and the       *)
(* validation.                                                             *)
(***************************************************************************)
EXTENDS Integers, Sequences, FiniteSets, TLC

(***************************************************************************)
(* Bounds of the model.  The entity counts and the per-macro action range  *)
(* (30..50 in the source) are scaled down so that every interleaving of    *)
(* the section tasks can be enumerated; generate_core_blocks builds the    *)
(* first MaxCoreBlocks blocks of its lists.                                *)
(***************************************************************************)
MaxUiElements == 2
MaxMacros == 1
MinActions == 1
MaxActions == 2
MaxCpu == 2
MaxSeed == 1
MaxCoreBlocks == 2
MaxPartitionTotal == 12
MaxPartitionCats == 4
MaxPadChunks == 3

(***************************************************************************)
(* Program constants.                                                      *)
(***************************************************************************)
MaxWorkersCap == 8
DefaultUiElementCount == 3065
DefaultTargetFileSize == 700 * 1024 * 1024
ProductionScale == 3000
ProductionMinSizeMb == 700
PadChunkSize == 8192
PadCommentRoom == 20
MiB == 1024 * 1024

VARIABLES
    ui_element_count,   \* self.ui_element_count
    macro_count,        \* self.macro_count
    thread_count,       \* self.thread_count
    target_file_size,   \* self.target_file_size
    rng,                \* state of the process-wide generator of module random
    stats,              \* self.stats
    status,             \* state of each section task's future
    tpc,                \* position of each section task in its code
    loop,               \* loop variables of each task: category i, j, next entity id
    tmp,                \* counter value a task has read and not yet written back
    cur,                \* entity a task is building
    subtree,            \* the section Element each task is filling
    content_elements,   \* list returned by _generate_content_parallel
    root,               \* children of self.root
    file,               \* the output file
    pc,                 \* position of the main thread
    result,             \* value returned by generate_xml
    reports,            \* what save_reports has saved
    part,               \* state of one partitioning loop
    correction,         \* state of one corrector: its text, its locals, what it returned
    writer,             \* state of the writing of the file: the texts, the chunks written
    hd                  \* state of one HDGRACEXMLGenerator.run

mainvars == <<ui_element_count, macro_count, thread_count, target_file_size, rng, stats,
              status, tpc, loop, tmp, cur, subtree, content_elements, root, file,
              pc, result, reports>>

others == <<part, correction, writer, hd>>

vars == <<mainvars, others>>

Min(a, b) == IF a < b THEN a ELSE b

(***************************************************************************)
(* The six section tasks, in the order in which they are declared.         *)
(***************************************************************************)
Tasks == <<"ui_elements", "macros", "core_blocks", "modules", "chrome_config", "enterprise">>

TaskNames == {Tasks[k] : k \in 1..Len(Tasks)}

TaskIndex(t) == CHOOSE k \in 1..Len(Tasks) : Tasks[k] = t

SectionTag(t) ==
    CASE t = "ui_elements" -> "UIElements"
      [] t = "macros" -> "Macros"
      [] t = "core_blocks" -> "CoreBlocks"
      [] t = "modules" -> "Modules"
      [] t = "chrome_config" -> "ChromeConfiguration"
      [] t = "enterprise" -> "EnterpriseFeatures"

UiCategories ==
    <<"youtube", "proxy", "browser", "security", "monitoring",
      "logging", "navigation", "authentication", "reporting", "validation">>

MacroCategories ==
    <<"youtube", "proxy", "browser", "security", "monitoring",
      "logging", "navigation", "authentication", "reporting", "validation">>

ModuleCategories ==
    <<"youtube_automation", "proxy_management", "browser_control",
      "security_management", "network_optimization", "error_recovery",
      "scheduling", "monitoring", "logging", "threading",
      "memory_management", "ui_automation", "data_extraction",
      "form_filling", "navigation", "authentication", "reporting",
      "validation", "backup", "restoration">>

BlocksOfType(names, type) == [k \in 1..Len(names) |-> [name |-> names[k], type |-> type]]

CoreBlocks ==
    BlocksOfType(<<"DatBlock", "UpdaterBlock", "DependencyLoaderBlock",
                   "CompatibilityLayerBlock", "CoreModuleBlock">>, "system")
    \o BlocksOfType(<<"MainDashBlock", "SubDashBlock", "SystemDashBlock",
                      "PrimaryUIComponentBlock", "SecondaryUIComponentBlock">>, "ui")
    \o BlocksOfType(<<"PrimaryResourceBlock", "SecondaryResourceBlock", "SystemResourceBlock",
                      "CoreScriptBlock", "UtilityScriptBlock">>, "resource")
    \o BlocksOfType(<<"PrimaryNavigatorBlock", "SecondaryNavigatorBlock",
                      "CoreActionBlock">>, "navigation")
    \o BlocksOfType(<<"PrimarySecurityBlock", "NetworkSecurityBlock",
                      "AuthenticationNetworkBlock">>, "security")
    \o BlocksOfType(<<"LoggingBlock", "MonitoringBlock", "SchedulerBlock",
                      "ThreadManagerBlock", "MemoryGuardBlock">>, "enterprise")

(***************************************************************************)
(* The partitioning of a total over n categories, as the three batch       *)
(* loops compute it.  Categories are numbered from 0 as by enumerate().    *)
(***************************************************************************)
\* variant: the comparison with the remainder is inclusive
CategoryCountInclusive(total, n, i) ==
    (total \div n) + (IF i <= total % n THEN 1 ELSE 0)

\* variant: the remainder goes to the last categories
CategoryCountToLast(total, n, i) ==
    (total \div n) + (IF i >= n - (total % n) THEN 1 ELSE 0)

CategoryCount(total, n, i) ==
    (total \div n) + (IF i < total % n THEN 1 ELSE 0)

\* the nested loops "for i, category ... for j in range(count)": position of
\* the next iteration at or after category i, or i = n when the loops are over
RECURSIVE SkipEmpty(_, _, _)
SkipEmpty(total, n, i) ==
    IF i >= n \/ CategoryCount(total, n, i) > 0 THEN i ELSE SkipEmpty(total, n, i + 1)

LoopStart(total, n) == [i |-> SkipEmpty(total, n, 0), j |-> 0, id |-> 0]

LoopNext(total, n, l) ==
    IF l.j + 1 < CategoryCount(total, n, l.i)
    THEN [i |-> l.i, j |-> l.j + 1, id |-> l.id + 1]
    ELSE [i |-> SkipEmpty(total, n, l.i + 1), j |-> 0, id |-> l.id + 1]

(***************************************************************************)
(* The shared generator of module random: a deterministic stream; every    *)
(* draw advances the one process-wide state.                               *)
(***************************************************************************)
RngModulus == 31
RngMultiplier == 3

NextRng(r) == (RngMultiplier * r) % RngModulus

RandInt(r, a, b) == a + (r % (b - a + 1))

RandChoice(r, seq) == seq[1 + (r % Len(seq))]

InteractionTypes == <<"click", "type", "hover", "scroll">>

(***************************************************************************)
(* Entities.                                                               *)
(***************************************************************************)
NoEntity == [tag |-> "none"]

\* generate_ui_element: five draws (x, y, width, height, button choice)
UiElementOf(element_id, category, r0) ==
    LET r1 == NextRng(r0)
        r2 == NextRng(r1)
        r3 == NextRng(r2)
        r4 == NextRng(r3)
        r5 == NextRng(r4)
    IN [tag |-> "UIElement", id |-> element_id, category |-> category,
        visible |-> "true", data_visible |-> "true", aria_visible |-> "true",
        enabled |-> "true",
        x |-> RandInt(r1, 0, 1920), y |-> RandInt(r2, 0, 1080),
        width |-> RandInt(r3, 100, 300), height |-> RandInt(r4, 30, 100),
        button |-> RandChoice(r5, <<TRUE, FALSE>>)]

ActionRefLow == 1

\* variant: the upper end of the draw is one past the target
ActionRefHighPastTarget(count) == count + 1

ActionRefHigh(count) == count

HasDefaultParameters(category) == category \notin {"youtube", "proxy"}

\* _generate_action: the UILink draws, then the timeout draw of the default branch
ActionOf(action_id, category, count, r0) ==
    LET r1 == NextRng(r0)
        r2 == NextRng(r1)
        r3 == NextRng(r2)
    IN [tag |-> "Action", id |-> action_id, type |-> category,
        element_id |-> RandInt(r1, ActionRefLow, ActionRefHigh(count)),
        interaction_type |-> RandChoice(r2, InteractionTypes),
        timeout |-> IF HasDefaultParameters(category) THEN RandInt(r3, 5000, 30000) ELSE 0]

ActionDraws(category) == IF HasDefaultParameters(category) THEN 3 ELSE 2

RECURSIVE Advance(_, _)
Advance(r, k) == IF k = 0 THEN r ELSE Advance(NextRng(r), k - 1)

(***************************************************************************)
(* The loops of the batch tasks.                                           *)
(***************************************************************************)
Categories(t) ==
    CASE t = "ui_elements" -> UiCategories
      [] t = "macros" -> MacroCategories
      [] t = "modules" -> ModuleCategories
      [] OTHER -> <<"blocks">>

Total(t, uic, mc) ==
    CASE t \in {"ui_elements", "modules"} -> uic
      [] t = "macros" -> mc
      [] t = "core_blocks" -> Min(MaxCoreBlocks, Len(CoreBlocks))
      [] OTHER -> 0

LoopOver(t, l) == l.i >= Len(Categories(t))

NextIteration(t, l, uic, mc) == LoopNext(Total(t, uic, mc), Len(Categories(t)), l)

(***************************************************************************)
(* Statistics counters.  "stats[k] += n" is a read followed by a write;    *)
(* another thread can run between the two.                                 *)
(***************************************************************************)
Increment(v, n) == v + n

\* variant: the module loop and the UI element loop write the same counter
CounterKeyShared(t) ==
    CASE t = "ui_elements" -> "ui_elements_created"
      [] t = "core_blocks" -> "blocks_created"
      [] t = "modules" -> "ui_elements_created"

\* the counter the entity loop of a task increments
CounterKey(t) ==
    CASE t = "ui_elements" -> "ui_elements_created"
      [] t = "core_blocks" -> "blocks_created"
      [] t = "modules" -> "modules_created"

InitStats ==
    [ui_elements_created |-> 0, macros_created |-> 0, actions_created |-> 0,
     blocks_created |-> 0, modules_created |-> 0, grammar_corrections_applied |-> 0,
     validation_errors |-> <<>>]

(***************************************************************************)
(* The root element as generate_xml builds it before the sections.         *)
(***************************************************************************)
Leaf(tag, text) == [tag |-> tag, text |-> text, count |-> 0, children |-> <<>>]

RootHeader ==
    <<Leaf("EngineVersion", "29.3.1"), Leaf("StructureVersion", "3.1"),
      Leaf("ProjectMetadata", ""), Leaf("Settings", "")>>

RootTrailer == <<Leaf("OutputConfiguration", ""), Leaf("ModelList", "")>>

SectionCount(t, uic, mc) ==
    CASE t \in {"ui_elements", "modules"} -> uic
      [] t = "macros" -> mc
      [] OTHER -> 0

SectionElement(t, uic, mc, children) ==
    [tag |-> SectionTag(t), text |-> "", count |-> SectionCount(t, uic, mc),
     children |-> children]

NoFile ==
    [written |-> FALSE, size |-> 0, has_root |-> FALSE, has_engine |-> FALSE,
     has_structure |-> FALSE, closing |-> 0, padding |-> 0, body |-> <<>>,
     text |-> <<>>]

\* no corrector has been called
InitCorrection ==
    [phase |-> "idle", text |-> "", corrected_text |-> "", corrections_applied |-> 0,
     k |-> 1, inputs |-> <<>>, outputs |-> <<>>, raised |-> <<>>, counts |-> <<>>]

InitPart == [phase |-> "idle", total |-> 0, n |-> 1, i |-> 0, j |-> 0, element_id |-> 0,
             counts |-> <<>>]

\* nothing has been serialized or written
InitWriter == [phase |-> "idle"]

\* a HDGRACEXMLGenerator before __init__ has prepared anything: no feature,
\* no content, no file
InitRun ==
    [phase |-> "idle", k |-> 1, i |-> 0, feature_index |-> 0, length |-> 0,
     last |-> [index |-> 0, category |-> 0, position |-> 0], counts |-> <<>>,
     source |-> "", xml_content |-> "", xml_file |-> <<>>, report_file |-> <<>>,
     outcome |-> "none"]

(***************************************************************************)
(* State after __init__ (which draws actions_per_macro from the shared     *)
(* generator) and after generate_xml has built the root header.            *)
(***************************************************************************)
MainInit(uic, mc, threads, target, seed, f, at) ==
    /\ ui_element_count = uic
    /\ macro_count = mc
    /\ thread_count = threads
    /\ target_file_size = target
    /\ rng = NextRng(seed)
    /\ stats = InitStats
    /\ status = [t \in TaskNames |-> "new"]
    /\ tpc = [t \in TaskNames |-> "build"]
    /\ loop = [t \in TaskNames |-> LoopStart(Total(t, uic, mc), Len(Categories(t)))]
    /\ tmp = [t \in TaskNames |-> 0]
    /\ cur = [t \in TaskNames |-> NoEntity]
    /\ subtree = [t \in TaskNames |-> <<>>]
    /\ content_elements = <<>>
    /\ root = RootHeader
    /\ file = f
    /\ pc = at
    /\ result = "none"
    /\ reports = "none"

Init ==
    /\ \E seed \in 1..MaxSeed :
           MainInit(MaxUiElements, MaxMacros, Min(MaxCpu, MaxWorkersCap),
                    DefaultTargetFileSize, seed, NoFile, "submit")
    /\ part = InitPart
    /\ correction = InitCorrection
    /\ writer = InitWriter
    /\ hd = InitRun

config == <<ui_element_count, macro_count, thread_count, target_file_size>>
tail == <<root, file, result>>

(***************************************************************************)
(* ThreadPoolExecutor: submit queues the tasks in order; at most           *)
(* thread_count run at a time, taken from the queue first in first out.    *)
(***************************************************************************)
Running == {t \in TaskNames : status[t] = "running"}

Finished == {t \in TaskNames : status[t] \in {"done", "failed"}}

\* the six executor.submit calls of the dict comprehension
SubmitTasks ==
    /\ pc = "submit"
    /\ \A t \in TaskNames : status[t] = "new"
    /\ status' = [t \in TaskNames |-> "queued"]
    /\ pc' = "submitted"
    /\ UNCHANGED <<config, rng, stats, tpc, loop, tmp, cur, subtree, content_elements,
                   tail, reports, others>>

StartTask(t) ==
    /\ status[t] = "queued"
    /\ \A u \in TaskNames : TaskIndex(u) < TaskIndex(t) => status[u] # "queued"
    /\ Cardinality(Running) < thread_count
    /\ status' = [status EXCEPT ![t] = "running"]
    /\ UNCHANGED <<config, rng, stats, tpc, loop, tmp, cur, subtree, content_elements,
                   tail, pc, reports, others>>

\* variant: the element of a future is appended whatever its outcome
CollectResultWhateverOutcome(ce, t, outcome, section) == Append(ce, <<t, section>>)

\* what the loop over as_completed does with a yielded future
CollectResult(ce, t, outcome, section) ==
    IF outcome = "done" THEN Append(ce, <<t, section>>) ELSE ce

\* the future of t gets its result or its exception; once the main thread is in
\* as_completed, futures are yielded in the order in which they complete
Complete(t, outcome, children) ==
    /\ status' = [status EXCEPT ![t] = outcome]
    /\ content_elements' =
           IF pc = "collect"
           THEN CollectResult(content_elements, t, outcome,
                              SectionElement(t, ui_element_count, macro_count, children))
           ELSE content_elements

\* a running task raises before it has built an entity
TaskRaises(t) ==
    /\ status[t] = "running"
    /\ tpc[t] = "build"
    /\ loop[t].id = 0
    /\ Complete(t, "failed", subtree[t])
    /\ UNCHANGED <<config, rng, stats, tpc, loop, tmp, cur, subtree, tail, pc, reports, others>>

(***************************************************************************)
(* The entity loops of _generate_ui_elements_batch, generate_core_blocks   *)
(* and generate_modules: build one entity, then increment the counter.     *)
(***************************************************************************)
CountedTasks == {"ui_elements", "core_blocks", "modules"}

StaticTasks == {"chrome_config", "enterprise"}

BlockOf(k) ==
    [tag |-> "Block", name |-> CoreBlocks[k + 1].name, type |-> CoreBlocks[k + 1].type,
     visible |-> "true", enabled |-> "true"]

ModuleOf(l) ==
    [tag |-> "Module", id |-> l.id, name |-> <<ModuleCategories[l.i + 1], l.j>>,
     category |-> ModuleCategories[l.i + 1], enabled |-> "true"]

EntityOf(t, l, r) ==
    CASE t = "ui_elements" -> UiElementOf(l.id, UiCategories[l.i + 1], r)
      [] t = "core_blocks" -> BlockOf(l.id)
      [] t = "modules" -> ModuleOf(l)

EntityDraws(t) == IF t = "ui_elements" THEN 5 ELSE 0

\* SubElement(parent, ...) appends at creation; generate_ui_element's result is
\* appended by the batch loop after the call has returned
AppendsAtCreation(t) == t \in {"core_blocks", "modules"}

BuildEntity(t) ==
    /\ t \in CountedTasks
    /\ status[t] = "running"
    /\ tpc[t] = "build"
    /\ ~LoopOver(t, loop[t])
    /\ LET e == EntityOf(t, loop[t], rng)
       IN /\ cur' = [cur EXCEPT ![t] = e]
          /\ subtree' = IF AppendsAtCreation(t)
                        THEN [subtree EXCEPT ![t] = Append(@, e)] ELSE subtree
    /\ rng' = Advance(rng, EntityDraws(t))
    /\ tmp' = [tmp EXCEPT ![t] = stats[CounterKey(t)]]
    /\ tpc' = [tpc EXCEPT ![t] = "store"]
    /\ UNCHANGED <<config, stats, status, loop, content_elements, tail, pc, reports, others>>

StoreCounter(t) ==
    /\ t \in CountedTasks
    /\ status[t] = "running"
    /\ tpc[t] = "store"
    /\ stats' = [stats EXCEPT ![CounterKey(t)] = Increment(tmp[t], 1)]
    /\ subtree' = IF AppendsAtCreation(t)
                  THEN subtree ELSE [subtree EXCEPT ![t] = Append(@, cur[t])]
    /\ cur' = [cur EXCEPT ![t] = NoEntity]
    /\ loop' = [loop EXCEPT ![t] = NextIteration(t, @, ui_element_count, macro_count)]
    /\ tpc' = [tpc EXCEPT ![t] = "build"]
    /\ UNCHANGED <<config, rng, status, tmp, content_elements, tail, pc, reports, others>>

(***************************************************************************)
(* generate_macro within _generate_macros_batch.                           *)
(***************************************************************************)
MacroBegin ==
    /\ status["macros"] = "running"
    /\ tpc["macros"] = "build"
    /\ ~LoopOver("macros", loop["macros"])
    /\ rng' = NextRng(rng)
    /\ cur' = [cur EXCEPT !["macros"] =
                  [tag |-> "Macro", id |-> loop["macros"].id,
                   category |-> MacroCategories[loop["macros"].i + 1],
                   action_count |-> RandInt(rng', MinActions, MaxActions),
                   actions |-> <<>>]]
    /\ tpc' = [tpc EXCEPT !["macros"] = "actions"]
    /\ UNCHANGED <<config, stats, status, loop, tmp, subtree, content_elements,
                   tail, pc, reports, others>>

MacroAction ==
    /\ status["macros"] = "running"
    /\ tpc["macros"] = "actions"
    /\ Len(cur["macros"].actions) < cur["macros"].action_count
    /\ LET m == cur["macros"]
           a == ActionOf(<<m.id, Len(m.actions)>>, m.category, ui_element_count, rng)
       IN /\ cur' = [cur EXCEPT !["macros"].actions = Append(@, a)]
          /\ rng' = Advance(rng, ActionDraws(m.category))
    /\ UNCHANGED <<config, stats, status, tpc, loop, tmp, subtree, content_elements,
                   tail, pc, reports, others>>

MacroLoadMacros ==
    /\ status["macros"] = "running"
    /\ tpc["macros"] = "actions"
    /\ Len(cur["macros"].actions) = cur["macros"].action_count
    /\ tmp' = [tmp EXCEPT !["macros"] = stats.macros_created]
    /\ tpc' = [tpc EXCEPT !["macros"] = "store_macros"]
    /\ UNCHANGED <<config, rng, stats, status, loop, cur, subtree, content_elements,
                   tail, pc, reports, others>>

MacroStoreMacros ==
    /\ status["macros"] = "running"
    /\ tpc["macros"] = "store_macros"
    /\ stats' = [stats EXCEPT !.macros_created = Increment(tmp["macros"], 1)]
    /\ tpc' = [tpc EXCEPT !["macros"] = "load_actions"]
    /\ UNCHANGED <<config, rng, status, loop, tmp, cur, subtree, content_elements,
                   tail, pc, reports, others>>

MacroLoadActions ==
    /\ status["macros"] = "running"
    /\ tpc["macros"] = "load_actions"
    /\ tmp' = [tmp EXCEPT !["macros"] = stats.actions_created]
    /\ tpc' = [tpc EXCEPT !["macros"] = "store_actions"]
    /\ UNCHANGED <<config, rng, stats, status, loop, cur, subtree, content_elements,
                   tail, pc, reports, others>>

MacroStoreActions ==
    /\ status["macros"] = "running"
    /\ tpc["macros"] = "store_actions"
    /\ stats' = [stats EXCEPT !.actions_created =
                    Increment(tmp["macros"], cur["macros"].action_count)]
    /\ subtree' = [subtree EXCEPT !["macros"] = Append(@, cur["macros"])]
    /\ cur' = [cur EXCEPT !["macros"] = NoEntity]
    /\ loop' = [loop EXCEPT !["macros"] =
                   NextIteration("macros", @, ui_element_count, macro_count)]
    /\ tpc' = [tpc EXCEPT !["macros"] = "build"]
    /\ UNCHANGED <<config, rng, status, tmp, content_elements, tail, pc, reports, others>>

(***************************************************************************)
(* generate_chrome_configuration and generate_enterprise_features build a  *)
(* fixed subtree and touch no shared state.                                *)
(***************************************************************************)
StaticChildren(t) ==
    IF t = "chrome_config"
    THEN <<[tag |-> "ChromeCommandLine"], [tag |-> "Preferences"]>>
    ELSE <<[tag |-> "VPSConfiguration"], [tag |-> "SecurityConfiguration"],
           [tag |-> "PerformanceMonitoring"], [tag |-> "LoggingConfiguration"],
           [tag |-> "ErrorRecovery"]>>

StaticTaskRuns(t) ==
    /\ t \in StaticTasks
    /\ status[t] = "running"
    /\ subtree' = [subtree EXCEPT ![t] = StaticChildren(t)]
    /\ Complete(t, "done", StaticChildren(t))
    /\ UNCHANGED <<config, rng, stats, tpc, loop, tmp, cur, tail, pc, reports, others>>

\* the loops of a batch task are over: it returns its section element
TaskReturns(t) ==
    /\ t \notin StaticTasks
    /\ status[t] = "running"
    /\ tpc[t] = "build"
    /\ LoopOver(t, loop[t])
    /\ Complete(t, "done", subtree[t])
    /\ UNCHANGED <<config, rng, stats, tpc, loop, tmp, cur, subtree, tail, pc, reports, others>>

(***************************************************************************)
(* Collection of the results with as_completed, after every task has been  *)
(* submitted.  Futures that are already finished when the main thread       *)
(* enters as_completed are yielded first, in the iteration order of a set  *)
(* of Future objects (any order); the others are yielded as they complete. *)
(***************************************************************************)
RECURSIVE Orderings(_)
Orderings(S) ==
    IF S = {} THEN {<<>>}
    ELSE UNION {{<<x>> \o o : o \in Orderings(S \ {x})} : x \in S}

RECURSIVE CollectAll(_, _, _, _, _, _)
CollectAll(ce, order, st, sub, uic, mc) ==
    IF order = <<>> THEN ce
    ELSE CollectAll(CollectResult(ce, Head(order), st[Head(order)],
                                  SectionElement(Head(order), uic, mc, sub[Head(order)])),
                    Tail(order), st, sub, uic, mc)

EnterAsCompleted ==
    /\ pc = "submitted"
    /\ \E order \in Orderings(Finished) :
           content_elements' = CollectAll(content_elements, order, status, subtree,
                                          ui_element_count, macro_count)
    /\ pc' = "collect"
    /\ UNCHANGED <<config, rng, stats, status, tpc, loop, tmp, cur, subtree, tail, reports, others>>

\* variant: the loop over as_completed ends at the first finished future
\* and the executor does not wait for the others
AsCompletedFirstOnly == Finished # {}

\* for future in as_completed(future_to_task) has yielded every future, and
\* the with block of the executor has waited for every task
AsCompletedExhausted == Finished = TaskNames

\* as_completed is exhausted; the executor shuts down; content_elements is returned
CollectReturn ==
    /\ pc = "collect"
    /\ AsCompletedExhausted
    /\ pc' = "merge"
    /\ UNCHANGED <<config, rng, stats, status, tpc, loop, tmp, cur, subtree,
                   content_elements, tail, reports, others>>

(***************************************************************************)
(* generate_xml after _generate_content_parallel: merge, write, pad,       *)
(* validate, report.                                                       *)
(***************************************************************************)
RECURSIVE Elements(_)
Elements(ce) == IF ce = <<>> THEN <<>> ELSE <<Head(ce)[2]>> \o Elements(Tail(ce))

\* every collected element is appended to the root, then the output
\* configuration and the model list
MergeContent ==
    /\ pc = "merge"
    /\ root' = (root \o Elements(content_elements)) \o RootTrailer
    /\ pc' = "write"
    /\ UNCHANGED <<config, rng, stats, status, tpc, loop, tmp, cur, subtree, content_elements,
                   file, result, reports, others>>

(***************************************************************************)
(* Length of tostring(self.root) after the XML declaration: approximate    *)
(* lengths of the indented elements of each kind.                          *)
(***************************************************************************)
NodeLength(e) ==
    CASE e.tag = "UIElement" -> 500
      [] e.tag = "Action" -> 250
      [] e.tag = "Macro" -> 2700 + 250 * Len(e.actions)
      [] e.tag = "Block" -> 150
      [] e.tag = "Module" -> 1050
      [] OTHER -> 240

RECURSIVE NodesLength(_)
NodesLength(nodes) ==
    IF nodes = <<>> THEN 0 ELSE NodeLength(Head(nodes)) + NodesLength(Tail(nodes))

RECURSIVE ChildrenLength(_)
ChildrenLength(children) ==
    IF children = <<>> THEN 0
    ELSE 60 + NodesLength(Head(children).children) + ChildrenLength(Tail(children))

XmlDeclarationLength == 39

DocumentLength(children) == XmlDeclarationLength + 120 + ChildrenLength(children)

(***************************************************************************)
(* The text of the file as the sequence of its pieces: the declaration,    *)
(* the opening tag of the root, one piece per child of the root, the       *)
(* padding comments and the closing tag of the root, each with its length. *)
(***************************************************************************)
RootOpenLength == 86

ClosingTagLength == 34

Piece(kind, tag, text, index, length) ==
    [kind |-> kind, tag |-> tag, text |-> text, index |-> index, length |-> length]

Declaration == Piece("declaration", "xml", "", 0, XmlDeclarationLength)

RootOpen == Piece("open", "BrowserAutomationStudioProject", "", 0, RootOpenLength)

ClosingTag == Piece("close", "BrowserAutomationStudioProject", "", 0, ClosingTagLength)

ElementPiece(e) == Piece("element", e.tag, e.text, 0, ChildrenLength(<<e>>))

\* tostring(self.root) after the declaration
Serialize(children) ==
    <<Declaration, RootOpen>> \o [k \in 1..Len(children) |-> ElementPiece(children[k])]
        \o <<ClosingTag>>

ReadLimit == 1000

\* f.read(limit): the pieces that lie whole within the first limit characters
RECURSIVE ReadChars(_, _)
ReadChars(text, limit) ==
    IF text = <<>> \/ Head(text).length > limit THEN <<>>
    ELSE <<Head(text)>> \o ReadChars(Tail(text), limit - Head(text).length)

\* '<EngineVersion>29.3.1</EngineVersion>' in content
HasLeaf(content, tag, text) ==
    \E k \in 1..Len(content) :
        content[k].kind = "element" /\ content[k].tag = tag /\ content[k].text = text

\* closing_tag in content, counted
RECURSIVE Occurrences(_, _)
Occurrences(text, piece) ==
    IF text = <<>> THEN 0
    ELSE (IF Head(text) = piece THEN 1 ELSE 0) + Occurrences(Tail(text), piece)

\* the file with the given text, with what validate_xml_output and
\* _pad_to_target_size look for in it
FileOf(text, size, padding, children) ==
    [written |-> TRUE, size |-> size,
     has_root |-> Occurrences(ReadChars(text, ReadLimit), RootOpen) > 0,
     has_engine |-> HasLeaf(ReadChars(text, ReadLimit), "EngineVersion", "29.3.1"),
     has_structure |-> HasLeaf(ReadChars(text, ReadLimit), "StructureVersion", "3.1"),
     closing |-> Occurrences(text, ClosingTag), padding |-> padding, body |-> children,
     text |-> text]

WrittenFile(children, size) == FileOf(Serialize(children), size, 0, children)

WriteFile ==
    /\ pc = "write"
    /\ file' = WrittenFile(root, DocumentLength(root))
    /\ pc' = "pad"
    /\ UNCHANGED <<config, rng, stats, status, tpc, loop, tmp, cur, subtree, content_elements,
                   root, result, reports, others>>

\* variant: the handler of generate_xml lets the exception through
GenerateXmlReraise == "raised"

\* except Exception in generate_xml: log, return False
GenerateXmlExcept == "false"

\* open() or write() raises: the handler of generate_xml logs and returns False
WriteFails ==
    /\ pc = "write"
    /\ file' = FileOf(<<>>, 0, 0, <<>>)
    /\ result' = GenerateXmlExcept
    /\ pc' = "done"
    /\ UNCHANGED <<config, rng, stats, status, tpc, loop, tmp, cur, subtree, content_elements,
                   root, reports, others>>

(***************************************************************************)
(* _pad_to_target_size.                                                    *)
(***************************************************************************)
RECURSIVE Digits(_)
Digits(i) == IF i < 10 THEN 1 ELSE 1 + Digits(i \div 10)

PadPrefixLength == 19

PadSuffixLength == 5

\* len(f"<!-- PADDING_CHUNK_{i}: {padding_data} -->\n")
PaddingChunkLength(i) ==
    PadPrefixLength + Digits(i) + 2 + (PadChunkSize - PadCommentRoom) + PadSuffixLength

ChunksNeeded(padding_needed) == padding_needed \div PadChunkSize

RECURSIVE PaddingLength(_)
PaddingLength(chunks) ==
    IF chunks = 0 THEN 0
    ELSE PaddingLength(chunks - 1) + PaddingChunkLength(chunks - 1)

\* padding_chunks
PaddingChunks(chunks) ==
    [i \in 1..chunks |-> Piece("comment", "PADDING_CHUNK", "A", i - 1, PaddingChunkLength(i - 1))]

\* variant: the padding goes after the closing tag
RECURSIVE ReplaceClosingAfter(_, _)
ReplaceClosingAfter(text, padding_content) ==
    IF text = <<>> THEN <<>>
    ELSE (IF Head(text) = ClosingTag THEN <<ClosingTag>> \o padding_content
          ELSE <<Head(text)>>)
             \o ReplaceClosingAfter(Tail(text), padding_content)

\* content.replace(closing_tag, f"{padding_content}{closing_tag}")
RECURSIVE ReplaceClosing(_, _)
ReplaceClosing(text, padding_content) ==
    IF text = <<>> THEN <<>>
    ELSE (IF Head(text) = ClosingTag THEN padding_content \o <<ClosingTag>>
          ELSE <<Head(text)>>)
             \o ReplaceClosing(Tail(text), padding_content)

PadToTargetSize(f, target) ==
    IF f.written /\ f.size < target /\ f.closing > 0
    THEN LET chunks == ChunksNeeded(target - f.size)
         IN FileOf(ReplaceClosing(f.text, PaddingChunks(chunks)),
                   f.size + f.closing * PaddingLength(chunks), chunks, f.body)
    ELSE f

IsProduction(uic) == uic >= ProductionScale

PadStep ==
    /\ pc = "pad"
    /\ file' = IF IsProduction(ui_element_count)
               THEN PadToTargetSize(file, target_file_size) ELSE file
    /\ pc' = "validate"
    /\ UNCHANGED <<config, rng, stats, status, tpc, loop, tmp, cur, subtree, content_elements,
                   root, result, reports, others>>

(***************************************************************************)
(* validate_xml_output.                                                    *)
(***************************************************************************)
\* file_size_mb < min_size_mb, with min_size_mb = 700 or 0.1 (MiB is not a
\* multiple of 10: size / MiB < 0.1 exactly when size <= MiB div 10)
BelowMinSize(size, uic) ==
    IF IsProduction(uic) THEN size < ProductionMinSizeMb * MiB ELSE size <= MiB \div 10

ValidateXmlOutput(f, uic) ==
    IF ~f.written THEN [ok |-> FALSE, findings |-> <<"validation_error">>]
    ELSE LET size_findings == IF BelowMinSize(f.size, uic) THEN <<"file_size">> ELSE <<>>
         IN IF BelowMinSize(f.size, uic) /\ IsProduction(uic)
            THEN [ok |-> FALSE, findings |-> size_findings]
            ELSE IF ~f.has_root
            THEN [ok |-> FALSE, findings |-> Append(size_findings, "root_element")]
            ELSE IF ~f.has_engine
            THEN [ok |-> FALSE, findings |-> Append(size_findings, "engine_version")]
            ELSE IF ~f.has_structure
            THEN [ok |-> FALSE, findings |-> Append(size_findings, "structure_version")]
            ELSE [ok |-> TRUE, findings |-> size_findings]

\* variant: generate_xml returns as soon as the validation has failed
ReturnWhenInvalid(validation_passed) == IF validation_passed THEN "report" ELSE "done"

\* the statement after validation_passed = self.validate_xml_output(...)
AfterValidateXmlOutput(validation_passed) == "report"

ValidateStep ==
    /\ pc = "validate"
    /\ LET v == ValidateXmlOutput(file, ui_element_count)
       IN /\ stats' = [stats EXCEPT !.validation_errors = @ \o v.findings]
          /\ result' = IF v.ok THEN "true" ELSE "false"
          /\ pc' = AfterValidateXmlOutput(v.ok)
    /\ UNCHANGED <<config, rng, status, tpc, loop, tmp, cur, subtree, content_elements,
                   root, file, reports, others>>

\* generate_statistics_report, save_reports, return validation_passed
ReportStep ==
    /\ pc = "report"
    /\ reports' = "saved"
    /\ pc' = "done"
    /\ UNCHANGED <<config, rng, stats, status, tpc, loop, tmp, cur, subtree, content_elements,
                   tail, others>>

Next ==
    \/ SubmitTasks
    \/ \E t \in TaskNames : StartTask(t)
    \/ \E t \in TaskNames : TaskRaises(t)
    \/ \E t \in TaskNames : BuildEntity(t)
    \/ \E t \in TaskNames : StoreCounter(t)
    \/ MacroBegin
    \/ MacroAction
    \/ MacroLoadMacros
    \/ MacroStoreMacros
    \/ MacroLoadActions
    \/ MacroStoreActions
    \/ \E t \in TaskNames : StaticTaskRuns(t)
    \/ \E t \in TaskNames : TaskReturns(t)
    \/ EnterAsCompleted
    \/ CollectReturn
    \/ MergeContent
    \/ WriteFile
    \/ WriteFails
    \/ PadStep
    \/ ValidateStep
    \/ ReportStep

Spec == Init /\ [][Next]_vars

(***************************************************************************)
(* The partitioning loop of the batch functions on its own, for any total  *)
(* and any number of categories: every iteration generates one entity of   *)
(* the current category.                                                   *)
(***************************************************************************)
PartitionTotals == 0..MaxPartitionTotal \cup {DefaultUiElementCount}

PartitionCategoryCounts ==
    1..MaxPartitionCats \cup {Len(UiCategories), Len(ModuleCategories)}

PartitionInit ==
    /\ MainInit(MaxUiElements, MaxMacros, Min(MaxCpu, MaxWorkersCap),
                DefaultTargetFileSize, 1, NoFile, "idle")
    /\ \E total \in PartitionTotals, n \in PartitionCategoryCounts :
           part = [phase |-> "loop", total |-> total, n |-> n,
                   i |-> LoopStart(total, n).i, j |-> 0, element_id |-> 0,
                   counts |-> [k \in 1..n |-> 0]]
    /\ correction = InitCorrection
    /\ writer = InitWriter
    /\ hd = InitRun

PartitionStep ==
    /\ part.phase = "loop"
    /\ part.i < part.n
    /\ LET l == LoopNext(part.total, part.n, [i |-> part.i, j |-> part.j, id |-> part.element_id])
       IN part' = [part EXCEPT !.counts[part.i + 1] = @ + 1,
                               !.i = l.i, !.j = l.j, !.element_id = l.id]
    /\ UNCHANGED <<mainvars, correction, writer, hd>>

PartitionReturn ==
    /\ part.phase = "loop"
    /\ part.i >= part.n
    /\ part' = [part EXCEPT !.phase = "done"]
    /\ UNCHANGED <<mainvars, correction, writer, hd>>

PartitionNext == PartitionStep \/ PartitionReturn

SpecPartition == PartitionInit /\ [][PartitionNext]_vars

(***************************************************************************)
(* Padding, validation and reporting of a written file of any size, at     *)
(* production scale.                                                       *)
(***************************************************************************)
PadRemainders == {0, 1, 7, 8, 4096, PadChunkSize - 1}

PadGaps == {q * PadChunkSize + r : q \in 0..MaxPadChunks, r \in PadRemainders} \cup {0 - 1}

PadTargets == {DefaultTargetFileSize, (MaxPadChunks + 1) * PadChunkSize}

PadInit ==
    /\ \E target \in PadTargets, gap \in PadGaps, closing \in 0..1 :
           /\ target - gap >= 0
           /\ MainInit(DefaultUiElementCount, DefaultUiElementCount,
                       Min(MaxCpu, MaxWorkersCap), target, 1,
                       FileOf(SubSeq(Serialize(RootHeader \o RootTrailer), 1,
                                     Len(RootHeader \o RootTrailer) + 2 + closing),
                              target - gap, 0, RootHeader \o RootTrailer),
                       "pad")
    /\ part = InitPart
    /\ correction = InitCorrection
    /\ writer = InitWriter
    /\ hd = InitRun

PadNext == PadStep \/ ValidateStep \/ ReportStep

SpecPad == PadInit /\ [][PadNext]_vars

(***************************************************************************)
(* validate_xml_output on any file: with or without each marker, with the  *)
(* markers within or beyond the characters read, of any size, at test and  *)
(* at production scale, and on a file that does not exist.                 *)
(***************************************************************************)
MaxProlog == 1

PrologLength == 900

\* a comment between the declaration and the root
Prolog == Piece("comment", "prolog", "", 0, PrologLength)

ValidateSizes == {0, (MiB \div 10), (MiB \div 10) + 1, ProductionMinSizeMb * MiB - 1,
                  ProductionMinSizeMb * MiB}

ValidateScales == {MaxUiElements, ProductionScale - 1, ProductionScale, DefaultUiElementCount}

\* the document text with the prolog and without the pieces whose tag is in omitted
ValidateText(prolog, omitted) ==
    LET full == <<Declaration>> \o [k \in 1..prolog |-> Prolog]
                    \o Tail(Serialize(RootHeader \o RootTrailer))
    IN SelectSeq(full, LAMBDA piece :
                     /\ (piece.kind \in {"open", "close"} => "root" \notin omitted)
                     /\ (piece.kind = "element" => piece.tag \notin omitted))

ValidateFiles ==
    {FileOf(ValidateText(prolog, omitted), size, 0, RootHeader \o RootTrailer) :
         prolog \in 0..MaxProlog,
         omitted \in SUBSET {"root", "EngineVersion", "StructureVersion"},
         size \in ValidateSizes}
        \cup {NoFile}

ValidateInit ==
    /\ \E uic \in ValidateScales, f \in ValidateFiles :
           MainInit(uic, uic, Min(MaxCpu, MaxWorkersCap), DefaultTargetFileSize, 1, f,
                    "validate")
    /\ part = InitPart
    /\ correction = InitCorrection
    /\ writer = InitWriter
    /\ hd = InitRun

ValidateNext == ValidateStep \/ ReportStep

SpecValidate == ValidateInit /\ [][ValidateNext]_vars

(***************************************************************************)
(* Texts are strings; a corrector scans its text from left to right.       *)
(***************************************************************************)
Quote == "\""

Drop(s, n) == SubSeq(s, n + 1, Len(s))

StartsWith(s, prefix) == Len(s) >= Len(prefix) /\ SubSeq(s, 1, Len(prefix)) = prefix

\* every concatenation of at most n of the given fragments
RECURSIVE Concatenations(_, _)
Concatenations(fragments, n) ==
    IF n = 0 THEN {""}
    ELSE LET shorter == Concatenations(fragments, n - 1)
         IN shorter \cup {t \o f : t \in shorter, f \in fragments}

StartCorrection(c, text) ==
    [c EXCEPT !.phase = "loop", !.text = text, !.corrected_text = text,
              !.corrections_applied = 0, !.k = 1, !.inputs = Append(@, text)]

ReturnFromCorrection(c, output, exception, counter) ==
    [c EXCEPT !.phase = "returned", !.outputs = Append(@, output),
              !.raised = Append(@, exception), !.counts = Append(@, counter)]

(***************************************************************************)
(* apply_grammar_corrections: five patterns, each a literal followed by    *)
(* the negative lookahead (?!"), applied one after the other.              *)
(***************************************************************************)
Quoted(name, value) == name \o "=" \o Quote \o value \o Quote

SimpleCorrections ==
    <<[pattern |-> "visible=true", replacement |-> Quoted("visible", "true")],
      [pattern |-> "enabled=false", replacement |-> Quoted("enabled", "false")],
      [pattern |-> "enabled=true", replacement |-> Quoted("enabled", "true")],
      [pattern |-> "active=true", replacement |-> Quoted("active", "true")],
      [pattern |-> "version=29.3.1", replacement |-> Quoted("version", "29.3.1")]>>

\* the pattern matches at the start of s: the literal, not followed by a quote
MatchesAt(s, literal) == StartsWith(s, literal) /\ ~StartsWith(Drop(s, Len(literal)), Quote)

\* variant: the lookahead is not part of the pattern
RECURSIVE FindAllLiteral(_, _)
FindAllLiteral(s, literal) ==
    IF Len(s) < Len(literal) THEN 0
    ELSE IF StartsWith(s, literal) THEN 1 + FindAllLiteral(Drop(s, Len(literal)), literal)
    ELSE FindAllLiteral(Drop(s, 1), literal)

\* position of the leftmost match of the pattern in s, 0 when there is none
FirstMatch(s, literal) ==
    LET hits == {i \in 1..(Len(s) - Len(literal) + 1) :
                    MatchesAt(SubSeq(s, i, Min(Len(s), i + Len(literal))), literal)}
    IN IF hits = {} THEN 0 ELSE CHOOSE i \in hits : \A j \in hits : i <= j

\* len(re.findall(pattern, corrected_text)): the matches from left to right,
\* each search starting where the match before it ended
RECURSIVE FindAll(_, _)
FindAll(s, literal) ==
    LET i == FirstMatch(s, literal)
    IN IF i = 0 THEN 0 ELSE 1 + FindAll(Drop(s, i - 1 + Len(literal)), literal)

\* variant: the attribute is left unquoted and followed by a space
RECURSIVE SubSpaced(_, _, _)
SubSpaced(s, literal, replacement) ==
    IF Len(s) < Len(literal) THEN s
    ELSE IF MatchesAt(s, literal)
    THEN literal \o " " \o SubSpaced(Drop(s, Len(literal)), literal, replacement)
    ELSE SubSeq(s, 1, 1) \o SubSpaced(Drop(s, 1), literal, replacement)

\* re.sub(pattern, replacement, corrected_text)
RECURSIVE Sub(_, _, _)
Sub(s, literal, replacement) ==
    LET i == FirstMatch(s, literal)
    IN IF i = 0 THEN s
       ELSE (SubSeq(s, 1, i - 1) \o replacement)
                \o Sub(Drop(s, i - 1 + Len(literal)), literal, replacement)

\* one iteration of "for pattern, replacement in simple_corrections"
GrammarPattern ==
    /\ correction.phase = "loop"
    /\ correction.k <= Len(SimpleCorrections)
    /\ LET rule == SimpleCorrections[correction.k]
           matches == FindAll(correction.corrected_text, rule.pattern)
       IN correction' =
              [correction EXCEPT
                   !.corrected_text = Sub(@, rule.pattern, rule.replacement),
                   !.corrections_applied = @ + matches,
                   !.k = @ + 1]
    /\ UNCHANGED <<mainvars, part, writer, hd>>

\* self.stats['grammar_corrections_applied'] += corrections_applied; return corrected_text
GrammarReturn ==
    /\ correction.phase = "loop"
    /\ correction.k > Len(SimpleCorrections)
    /\ stats' = [stats EXCEPT !.grammar_corrections_applied =
                                  Increment(@, correction.corrections_applied)]
    /\ correction' = ReturnFromCorrection(correction, correction.corrected_text, FALSE,
                                          stats'.grammar_corrections_applied)
    /\ UNCHANGED <<config, rng, status, tpc, loop, tmp, cur, subtree, content_elements,
                   tail, pc, part, reports, writer, hd>>

\* variant: the handler returns the text as corrected so far
GrammarExceptPartial(c) == c.corrected_text

\* except Exception: return text
GrammarExcept(c) == c.text

\* an exception in the try block, at any iteration or at the counter update
GrammarRaises ==
    /\ correction.phase = "loop"
    /\ correction' = ReturnFromCorrection(correction, GrammarExcept(correction), TRUE,
                                          stats.grammar_corrections_applied)
    /\ UNCHANGED <<mainvars, part, writer, hd>>

MaxCalls == 2

\* the corrector is called on the text it returned
GrammarCallAgain ==
    /\ correction.phase = "returned"
    /\ Len(correction.outputs) < MaxCalls
    /\ correction' = StartCorrection(correction, correction.outputs[Len(correction.outputs)])
    /\ UNCHANGED <<mainvars, part, writer, hd>>

MaxFragments == 2

GrammarFragments ==
    {"enabled=true", "enabled=false", "visible=true", "active=tru", "active=true",
     "version=29.3.1", "nabled=true", "0", " x ", Quote}

GrammarTexts == Concatenations(GrammarFragments, MaxFragments)

GrammarInit ==
    /\ MainInit(MaxUiElements, MaxMacros, Min(MaxCpu, MaxWorkersCap),
                DefaultTargetFileSize, 1, NoFile, "idle")
    /\ part = InitPart
    /\ \E text \in GrammarTexts : correction = StartCorrection(InitCorrection, text)
    /\ writer = InitWriter
    /\ hd = InitRun

GrammarNext == GrammarPattern \/ GrammarReturn \/ GrammarRaises \/ GrammarCallAgain

SpecGrammar == GrammarInit /\ [][GrammarNext]_vars

(***************************************************************************)
(* _apply_corrections of the lookup-table generator: every span between a  *)
(* quote and the next quote has each rule of the table applied to it, in   *)
(* the order of the table.  The four rules whose keys are Hangul words are *)
(* left out: no text of the model contains a Hangul character.             *)
(***************************************************************************)
Corrections ==
    <<<<"visiable", "visible">>, <<"visibile", "visible">>, <<"visable", "visible">>,
      <<"invisable", "invisible">>, <<"hiden", "hidden">>, <<"hideen", "hidden">>,
      <<"dissable", "disabled">>, <<"disible", "disabled">>, <<"enabeld", "enabled">>,
      <<"buton", "button">>, <<"botton", "button">>, <<"imput", "input">>,
      <<"heigth", "height">>, <<"widht", "width">>, <<"colr", "color">>,
      <<"styl", "style">>, <<"classs", "class">>, <<"methd", "method">>,
      <<"Yes", "true">>, <<"No", "false">>, <<"On", "true">>, <<"Off", "false">>,
      <<"TRUE", "true">>, <<"FALSE", "false">>,
      <<"enable", "enabled">>, <<"show", "visible">>, <<"hide", "hidden">>>>

\* value.replace(wrong, correct)
RECURSIVE Replace(_, _, _)
Replace(s, wrong, correct) ==
    IF Len(s) < Len(wrong) THEN s
    ELSE IF StartsWith(s, wrong) THEN correct \o Replace(Drop(s, Len(wrong)), wrong, correct)
    ELSE SubSeq(s, 1, 1) \o Replace(Drop(s, 1), wrong, correct)

\* for wrong, correct in self.corrections.items(): value = value.replace(wrong, correct)
RECURSIVE ApplyRules(_, _)
ApplyRules(value, k) ==
    IF k > Len(Corrections) THEN value
    ELSE ApplyRules(Replace(value, Corrections[k][1], Corrections[k][2]), k + 1)

CorrectAttributeValue(value) == Quote \o ApplyRules(value, 1) \o Quote

\* position of the first quote of s, 0 when it has none
RECURSIVE FirstQuote(_)
FirstQuote(s) ==
    IF s = "" THEN 0
    ELSE IF StartsWith(s, Quote) THEN 1
    ELSE LET rest == FirstQuote(Drop(s, 1)) IN IF rest = 0 THEN 0 ELSE rest + 1

\* re.sub(r'"([^"]*)"', correct_attribute_value, text)
RECURSIVE ApplyCorrections(_)
ApplyCorrections(text) ==
    LET open == FirstQuote(text)
        close == FirstQuote(Drop(text, open))
    IN IF open = 0 \/ close = 0 THEN text
       ELSE SubSeq(text, 1, open - 1)
                \o CorrectAttributeValue(SubSeq(text, open + 1, open + close - 1))
                \o ApplyCorrections(Drop(text, open + close))

LookupCall ==
    /\ correction.phase = "loop"
    /\ correction' = ReturnFromCorrection(correction, ApplyCorrections(correction.text),
                                          FALSE, stats.grammar_corrections_applied)
    /\ UNCHANGED <<mainvars, part, writer, hd>>

LookupCallAgain ==
    /\ correction.phase = "returned"
    /\ Len(correction.outputs) < MaxCalls
    /\ correction' = StartCorrection(correction, correction.outputs[Len(correction.outputs)])
    /\ UNCHANGED <<mainvars, part, writer, hd>>

LookupWords ==
    {"x", "true", "visible", "hidden", "hiden", "button", "buton", "color", "colr",
     "style", "styl", "class", "classs", "Yes", "No", "On", "TRUE", "Notifications",
     "enabled", "enable", "enabeld", "show", "hide", "3.1"}

\* an element with an attribute of the given value
AttributeText(w) == "<a v=" \o Quote \o w \o Quote \o "/>"

\* an element whose text content is the quoted word
ContentText(w) == "<a>" \o Quote \o w \o Quote \o "</a>"

\* an element whose text content has one quote, before an element with an attribute
OneQuoteText(w) == "<show>" \o Quote \o w \o "</show><b class=" \o Quote \o "x" \o Quote \o "/>"

LookupTexts ==
    {AttributeText(w) : w \in LookupWords} \cup {ContentText(w) : w \in LookupWords}
        \cup {OneQuoteText(w) : w \in LookupWords}

LookupInit ==
    /\ MainInit(MaxUiElements, MaxMacros, Min(MaxCpu, MaxWorkersCap),
                DefaultTargetFileSize, 1, NoFile, "idle")
    /\ part = InitPart
    /\ \E text \in LookupTexts : correction = StartCorrection(InitCorrection, text)
    /\ writer = InitWriter
    /\ hd = InitRun

LookupNext == LookupCall \/ LookupCallAgain

SpecLookup == LookupInit /\ [][LookupNext]_vars

(***************************************************************************)
(* The batch functions run alone, one after the other, as functions of the *)
(* generator state they start from.                                        *)
(***************************************************************************)
RECURSIVE UiElementsBatch(_, _, _, _)
UiElementsBatch(l, r, uic, acc) ==
    IF LoopOver("ui_elements", l) THEN [children |-> acc, rng |-> r]
    ELSE UiElementsBatch(NextIteration("ui_elements", l, uic, 0),
                         Advance(r, EntityDraws("ui_elements")), uic,
                         Append(acc, EntityOf("ui_elements", l, r)))

RECURSIVE GenerateActions(_, _, _)
GenerateActions(m, r, uic) ==
    IF Len(m.actions) = m.action_count THEN [macro |-> m, rng |-> r]
    ELSE GenerateActions(
             [m EXCEPT !.actions =
                  Append(@, ActionOf(<<m.id, Len(m.actions)>>, m.category, uic, r))],
             Advance(r, ActionDraws(m.category)), uic)

GenerateMacro(l, r, uic) ==
    GenerateActions([tag |-> "Macro", id |-> l.id, category |-> MacroCategories[l.i + 1],
                     action_count |-> RandInt(NextRng(r), MinActions, MaxActions),
                     actions |-> <<>>],
                    NextRng(r), uic)

RECURSIVE MacrosBatch(_, _, _, _, _)
MacrosBatch(l, r, uic, mc, acc) ==
    IF LoopOver("macros", l) THEN [children |-> acc, rng |-> r]
    ELSE LET g == GenerateMacro(l, r, uic)
         IN MacrosBatch(NextIteration("macros", l, uic, mc), g.rng, uic, mc,
                        Append(acc, g.macro))

RECURSIVE EntitiesBatch(_, _, _, _)
EntitiesBatch(t, l, uic, acc) ==
    IF LoopOver(t, l) THEN acc
    ELSE EntitiesBatch(t, NextIteration(t, l, uic, 0), uic, Append(acc, EntityOf(t, l, 0)))

\* the sections of a run in which the tasks execute one after the other in
\* the declared order, from generator state r
SequentialSections(r, uic, mc) ==
    LET start(t) == LoopStart(Total(t, uic, mc), Len(Categories(t)))
        ui == UiElementsBatch(start("ui_elements"), r, uic, <<>>)
        ma == MacrosBatch(start("macros"), ui.rng, uic, mc, <<>>)
    IN <<SectionElement("ui_elements", uic, mc, ui.children),
         SectionElement("macros", uic, mc, ma.children),
         SectionElement("core_blocks", uic, mc,
                        EntitiesBatch("core_blocks", start("core_blocks"), uic, <<>>)),
         SectionElement("modules", uic, mc,
                        EntitiesBatch("modules", start("modules"), uic, <<>>)),
         SectionElement("chrome_config", uic, mc, StaticChildren("chrome_config")),
         SectionElement("enterprise", uic, mc, StaticChildren("enterprise"))>>

(***************************************************************************)
(* generate_xml from the merge to its return, with every step that can     *)
(* fail failing or not, after any set of section tasks has failed.  At     *)
(* production scale the entities of the sections are left out of the       *)
(* document: no step after the merge reads them.                           *)
(***************************************************************************)
\* an exception inside _pad_to_target_size is caught and logged there: before
\* the file is written back it leaves the file as it was, while it is written
\* back it leaves what had been written
PadFails ==
    /\ pc = "pad"
    /\ IsProduction(ui_element_count)
    /\ file' \in {file, FileOf(<<>>, 0, 0, file.body)}
    /\ pc' = "validate"
    /\ UNCHANGED <<config, rng, stats, status, tpc, loop, tmp, cur, subtree, content_elements,
                   root, result, reports, others>>

\* an exception inside validate_xml_output, at getsize or at the read after
\* the size check: the handler appends a finding and returns False
ValidateFails ==
    /\ pc = "validate"
    /\ \E before \in {<<>>} \cup
                     (IF BelowMinSize(file.size, ui_element_count)
                         /\ ~IsProduction(ui_element_count)
                      THEN {<<"file_size">>} ELSE {}) :
           stats' = [stats EXCEPT !.validation_errors =
                                      (@ \o before) \o <<"validation_error">>]
    /\ result' = "false"
    /\ pc' = "report"
    /\ UNCHANGED <<config, rng, status, tpc, loop, tmp, cur, subtree, content_elements,
                   root, file, reports, others>>

\* an exception in generate_statistics_report (nothing is saved) or in the
\* final logging (the reports are saved) reaches the handler of generate_xml
ReportFails ==
    /\ pc = "report"
    /\ reports' \in {"not_generated", "saved"}
    /\ result' = GenerateXmlExcept
    /\ pc' = "done"
    /\ UNCHANGED <<config, rng, stats, status, tpc, loop, tmp, cur, subtree, content_elements,
                   root, file, others>>

\* an exception inside save_reports is caught and logged there: generate_xml
\* goes on and returns validation_passed
SaveReportsFails ==
    /\ pc = "report"
    /\ reports' = "not_saved"
    /\ pc' = "done"
    /\ UNCHANGED <<config, rng, stats, status, tpc, loop, tmp, cur, subtree, content_elements,
                   tail, others>>

\* the children of the section element of task t after a run of its function
CompletedChildren(t, uic, mc) ==
    IF IsProduction(uic)
    THEN (IF t \in StaticTasks THEN StaticChildren(t) ELSE <<>>)
    ELSE SequentialSections(NextRng(1), uic, mc)[TaskIndex(t)].children

RECURSIVE CollectedInOrder(_, _, _, _)
CollectedInOrder(k, failed, uic, mc) ==
    IF k > Len(Tasks) THEN <<>>
    ELSE (IF Tasks[k] \in failed THEN <<>>
          ELSE <<<<Tasks[k], SectionElement(Tasks[k], uic, mc,
                                            CompletedChildren(Tasks[k], uic, mc))>>>>)
             \o CollectedInOrder(k + 1, failed, uic, mc)

OutcomeInit ==
    /\ \E uic \in {MaxUiElements, DefaultUiElementCount}, failed \in SUBSET TaskNames :
           LET mc == IF IsProduction(uic) THEN uic ELSE MaxMacros
               children(t) == IF t \in failed THEN <<>> ELSE CompletedChildren(t, uic, mc)
           IN /\ ui_element_count = uic
              /\ macro_count = mc
              /\ status = [t \in TaskNames |-> IF t \in failed THEN "failed" ELSE "done"]
              /\ subtree = [t \in TaskNames |-> children(t)]
              /\ content_elements = CollectedInOrder(1, failed, uic, mc)
              /\ stats = [InitStats EXCEPT
                              !.ui_elements_created = Len(children("ui_elements")),
                              !.macros_created = Len(children("macros")),
                              !.actions_created = 0,
                              !.blocks_created = Len(children("core_blocks")),
                              !.modules_created = Len(children("modules"))]
              /\ loop = [t \in TaskNames |-> LoopStart(Total(t, uic, mc), Len(Categories(t)))]
    /\ thread_count = Min(MaxCpu, MaxWorkersCap)
    /\ target_file_size = (MaxPadChunks + 1) * PadChunkSize
    /\ rng = NextRng(1)
    /\ tpc = [t \in TaskNames |-> "build"]
    /\ tmp = [t \in TaskNames |-> 0]
    /\ cur = [t \in TaskNames |-> NoEntity]
    /\ root = RootHeader
    /\ file = NoFile
    /\ pc = "merge"
    /\ result = "none"
    /\ reports = "none"
    /\ part = InitPart
    /\ correction = InitCorrection
    /\ writer = InitWriter
    /\ hd = InitRun

OutcomeNext ==
    \/ MergeContent
    \/ WriteFile
    \/ WriteFails
    \/ PadStep
    \/ PadFails
    \/ ValidateStep
    \/ ValidateFails
    \/ ReportStep
    \/ ReportFails
    \/ SaveReportsFails

SpecOutcome == OutcomeInit /\ [][OutcomeNext]_vars

(***************************************************************************)
(* The element tree and its serialization.  A node has a tag, attributes   *)
(* in the order in which they were set, a text, a tail and children.  No   *)
(* text or attribute value of the generator holds a character that         *)
(* tostring escapes.                                                       *)
(***************************************************************************)
Node(tag, attrs, text, children) ==
    [tag |-> tag, attrs |-> attrs, text |-> text, tail |-> "", children |-> children]

RECURSIVE AttributesToString(_)
AttributesToString(attrs) ==
    IF attrs = <<>> THEN ""
    ELSE " " \o Quoted(Head(attrs)[1], Head(attrs)[2]) \o AttributesToString(Tail(attrs))

\* tostring(element, encoding='unicode'): an element without text and without
\* children is written as an empty-element tag
RECURSIVE tostring(_)
tostring(e) ==
    LET RECURSIVE all(_)
        all(children) == IF children = <<>> THEN ""
                         ELSE tostring(Head(children)) \o all(Tail(children))
    IN "<" \o e.tag \o AttributesToString(e.attrs)
           \o (IF e.text = "" /\ e.children = <<>> THEN " />"
               ELSE ">" \o e.text \o all(e.children) \o "</" \o e.tag \o ">")
           \o e.tail

\* not s.strip()
RECURSIVE IsBlank(_)
IsBlank(s) ==
    s = "" \/ (SubSeq(s, 1, 1) \in {" ", "\n", "\t"} /\ IsBlank(Drop(s, 1)))

RECURSIVE Indentation(_)
Indentation(level) == IF level = 0 THEN "\n" ELSE Indentation(level - 1) \o "  "

\* _indent_children of xml.etree.ElementTree.indent with space="  ": a blank
\* text of the element and the blank tails of its children become the
\* indentation of the children, the tail of the last child that of the element
RECURSIVE IndentChildren(_, _)
IndentChildren(elem, level) ==
    LET child_indentation == Indentation(level + 1)
        n == Len(elem.children)
        indented(k) ==
            LET child == IF elem.children[k].children # <<>>
                         THEN IndentChildren(elem.children[k], level + 1)
                         ELSE elem.children[k]
                tail_k == IF IsBlank(child.tail) THEN child_indentation ELSE child.tail
            IN [child EXCEPT !.tail = IF k = n /\ IsBlank(tail_k)
                                      THEN Indentation(level) ELSE tail_k]
    IN [elem EXCEPT !.text = IF IsBlank(@) THEN child_indentation ELSE @,
                    !.children = [k \in 1..n |-> indented(k)]]

\* ET.indent(self.root, space="  ", level=0): a tree without children is left alone
Indent(tree) == IF tree.children = <<>> THEN tree ELSE IndentChildren(tree, 0)

\* variant: the accessibility flag is not set
UiElementNodeNoAria(u) ==
    Node("UIElement",
         <<<<"id", ToString(u.id)>>, <<"visible", u.visible>>,
           <<"data-visible", u.data_visible>>>>,
         "", <<>>)

\* generate_ui_element as a tree: the attributes in the order of the set calls
UiElementNode(u) ==
    Node("UIElement",
         <<<<"id", ToString(u.id)>>,
           <<"name", u.category \o "_Element_" \o ToString(u.id)>>,
           <<"visible", u.visible>>, <<"data-visible", u.data_visible>>,
           <<"aria-visible", u.aria_visible>>, <<"enabled", u.enabled>>,
           <<"category", u.category>>, <<"version", "29.3.1">>>>,
         "",
         <<Node("Properties", <<>>, "",
                <<Node("Visibility", <<>>, "true", <<>>),
                  Node("InteractionEnabled", <<>>, "true", <<>>),
                  Node("AccessibilityEnabled", <<>>, "true", <<>>)>>),
           Node("Styling", <<<<"theme", "enterprise">>, <<"responsive", "true">>>>, "",
                <<Node("Position",
                       <<<<"x", ToString(u.x)>>, <<"y", ToString(u.y)>>,
                         <<"width", ToString(u.width)>>, <<"height", ToString(u.height)>>>>,
                       "", <<>>)>>)>>
           \o (IF u.button
               THEN <<Node("Button",
                           <<<<"visible", "true">>, <<"enabled", "true">>,
                             <<"clickable", "true">>>>,
                           "Button_" \o ToString(u.id), <<>>)>>
               ELSE <<>>))

(***************************************************************************)
(* The writing of the file in generate_xml: the declaration, the           *)
(* serialization of the root, its correction, the indentation of the root  *)
(* where ElementTree has indent (Python 3.9 and later), then the chunks.   *)
(***************************************************************************)
\* the whole of apply_grammar_corrections when nothing raises: the text and
\* the number of corrections after the patterns from the k-th on
RECURSIVE CorrectFrom(_, _)
CorrectFrom(text, k) ==
    IF k > Len(SimpleCorrections) THEN [text |-> text, corrections_applied |-> 0]
    ELSE LET rule == SimpleCorrections[k]
             rest == CorrectFrom(Sub(text, rule.pattern, rule.replacement), k + 1)
         IN [text |-> rest.text,
             corrections_applied |-> FindAll(text, rule.pattern) + rest.corrections_applied]

XmlDeclaration == "<?xml version=" \o Quote \o "1.0" \o Quote \o " encoding="
                      \o Quote \o "UTF-8" \o Quote \o "?>\n"

\* try: ET.indent(...); final_xml = tostring(self.root) except AttributeError:
\* final_xml = corrected_xml
FinalXml(w, indented) == IF w.has_indent THEN tostring(indented) ELSE w.corrected_xml

\* open, f.write(declaration), tostring, apply_grammar_corrections
WriterOpen ==
    /\ writer.phase = "open"
    /\ LET xml_string == tostring(writer.root)
           corrected == CorrectFrom(xml_string, 1)
       IN /\ writer' = [writer EXCEPT !.phase = "indent",
                                      !.declaration = XmlDeclaration,
                                      !.xml_string = xml_string,
                                      !.corrected_xml = corrected.text]
          /\ stats' = [stats EXCEPT !.grammar_corrections_applied =
                                        Increment(@, corrected.corrections_applied)]
    /\ UNCHANGED <<config, rng, status, tpc, loop, tmp, cur, subtree, content_elements,
                   tail, pc, reports, part, correction, hd>>

\* ET.indent changes the texts and tails of the nodes of self.root in place
WriterIndent ==
    /\ writer.phase = "indent"
    /\ LET indented == IF writer.has_indent THEN Indent(writer.root) ELSE writer.root
       IN writer' = [writer EXCEPT !.phase = "write",
                                   !.root = indented,
                                   !.final_xml = FinalXml(writer, indented),
                                   !.i = 0]
    /\ UNCHANGED <<mainvars, part, correction, hd>>

\* variant: the slice ends one character early
ChunkShort(text, i, chunk_size) == SubSeq(text, i + 1, Min(i + chunk_size, Len(text)) - 1)

\* final_xml[i:i + chunk_size]
Chunk(text, i, chunk_size) == SubSeq(text, i + 1, Min(i + chunk_size, Len(text)))

\* one iteration of "for i in range(0, len(final_xml), chunk_size)"
WriterChunk ==
    /\ writer.phase = "write"
    /\ writer.i < Len(writer.final_xml)
    /\ writer' = [writer EXCEPT
                      !.written = Append(@, Chunk(writer.final_xml, writer.i,
                                                   writer.chunk_size)),
                      !.i = @ + writer.chunk_size]
    /\ UNCHANGED <<mainvars, part, correction, hd>>

\* the range is exhausted: the with block closes the file
WriterClose ==
    /\ writer.phase = "write"
    /\ writer.i >= Len(writer.final_xml)
    /\ writer' = [writer EXCEPT !.phase = "closed"]
    /\ UNCHANGED <<mainvars, part, correction, hd>>

RECURSIVE Concat(_)
Concat(chunks) == IF chunks = <<>> THEN "" ELSE Head(chunks) \o Concat(Tail(chunks))

\* self.root as generate_xml has built it, with the given sections
RootNode(sections) ==
    Node("BrowserAutomationStudioProject",
         <<<<"xmlns", "http://bablosoft.com/BAS">>, <<"version", "29.3.1">>>>, "",
         (<<Node("EngineVersion", <<>>, "29.3.1", <<>>),
            Node("StructureVersion", <<>>, "3.1", <<>>)>> \o sections)
             \o <<Node("ModelList", <<>>, "", <<>>)>>)

\* _generate_ui_elements_batch: the section of the UI elements
UiElementsNode(count, elements) ==
    Node("UIElements", <<<<"count", ToString(count)>>, <<"version", "29.3.1">>>>, "", elements)

MinChunkSize == 100
MaxChunkSize == 1000

WriterChunkSizes == {MinChunkSize, MaxChunkSize}

WriterSeeds == 1..2

WriterRoots ==
    {RootNode(<<>>)}
        \cup {RootNode(<<UiElementsNode(1, <<UiElementNode(UiElementOf(id, category, r))>>)>>) :
                  id \in 0..1, category \in {UiCategories[1], UiCategories[2]},
                  r \in WriterSeeds}

StartWriter(tree, has_indent, chunk_size, phase, final_xml) ==
    [phase |-> phase, root |-> tree, has_indent |-> has_indent, chunk_size |-> chunk_size,
     declaration |-> "", xml_string |-> "", corrected_xml |-> "", final_xml |-> final_xml,
     i |-> 0, written |-> <<>>]

WriterInit ==
    /\ MainInit(MaxUiElements, MaxMacros, Min(MaxCpu, MaxWorkersCap),
                DefaultTargetFileSize, 1, NoFile, "write")
    /\ part = InitPart
    /\ correction = InitCorrection
    /\ \E tree \in WriterRoots, has_indent \in BOOLEAN, chunk_size \in WriterChunkSizes :
           writer = StartWriter(tree, has_indent, chunk_size, "open", "")
    /\ hd = InitRun

WriterNext == WriterOpen \/ WriterIndent \/ WriterChunk \/ WriterClose

SpecWrite == WriterInit /\ [][WriterNext]_vars

(***************************************************************************)
(* The chunk loop alone, on any text and any chunk size.                   *)
(***************************************************************************)
MaxTextLength == 9
MaxChunk == 4

ChunkTexts == {SubSeq("abcdefghijklmnopqrstuvwxyz", 1, n) : n \in 0..MaxTextLength}

ChunksInit ==
    /\ MainInit(MaxUiElements, MaxMacros, Min(MaxCpu, MaxWorkersCap),
                DefaultTargetFileSize, 1, NoFile, "write")
    /\ part = InitPart
    /\ correction = InitCorrection
    /\ \E text \in ChunkTexts, chunk_size \in 1..MaxChunk :
           writer = StartWriter(RootNode(<<>>), TRUE, chunk_size, "write", text)
    /\ hd = InitRun

ChunksNext == WriterChunk \/ WriterClose

SpecChunks == ChunksInit /\ [][ChunksNext]_vars

(***************************************************************************)
(* The macros task of a production run, one category of macros at a step.  *)
(* Every macro of the category draws its number of actions; the step adds  *)
(* what generate_macro adds to the counters for each of them.  The Macro   *)
(* and Action elements themselves are left out.  The draws taken here are  *)
(* those in which the macros of one category draw the same number.         *)
(***************************************************************************)
\* action_count = random.randint(30, 50)
ActionCountLow == 30

ActionCountHigh == 50

\* self.min_action_count, self.max_action_count
MinActionCount == 61300

MaxActionCount == 122600

ActionCountDraws ==
    {ActionCountLow, (ActionCountLow + ActionCountHigh) \div 2,
     (ActionCountLow + ActionCountHigh) \div 2 + 1, ActionCountHigh}

\* for j in range(count): macro = self.generate_macro(macro_id, category) ...
MacroCategoryRuns ==
    /\ status["macros"] = "running"
    /\ tpc["macros"] = "build"
    /\ ~LoopOver("macros", loop["macros"])
    /\ loop["macros"].j = 0
    /\ LET l == loop["macros"]
           n == Len(MacroCategories)
           count == CategoryCount(macro_count, n, l.i)
       IN /\ \E action_count \in ActionCountDraws :
                 stats' = [stats EXCEPT
                              !.macros_created = Increment(@, count),
                              !.actions_created = Increment(@, action_count * count)]
          /\ loop' = [loop EXCEPT !["macros"] =
                         [i |-> SkipEmpty(macro_count, n, l.i + 1), j |-> 0,
                          id |-> l.id + count]]
    /\ UNCHANGED <<config, rng, status, tpc, tmp, cur, subtree, content_elements, tail, pc,
                   reports, others>>

ActionsInit ==
    /\ ui_element_count = DefaultUiElementCount
    /\ macro_count = DefaultUiElementCount
    /\ thread_count = Min(MaxCpu, MaxWorkersCap)
    /\ target_file_size = DefaultTargetFileSize
    /\ rng = NextRng(1)
    /\ stats = InitStats
    /\ status = [t \in TaskNames |-> IF t = "macros" THEN "running" ELSE "queued"]
    /\ tpc = [t \in TaskNames |-> "build"]
    /\ loop = [t \in TaskNames |->
                  LoopStart(Total(t, DefaultUiElementCount, DefaultUiElementCount),
                            Len(Categories(t)))]
    /\ tmp = [t \in TaskNames |-> 0]
    /\ cur = [t \in TaskNames |-> NoEntity]
    /\ subtree = [t \in TaskNames |-> <<>>]
    /\ content_elements = <<>>
    /\ root = RootHeader
    /\ file = NoFile
    /\ pc = "submitted"
    /\ result = "none"
    /\ reports = "none"
    /\ part = InitPart
    /\ correction = InitCorrection
    /\ writer = InitWriter
    /\ hd = InitRun

ActionsNext == MacroCategoryRuns \/ TaskReturns("macros")

SpecActions == ActionsInit /\ [][ActionsNext]_vars

(***************************************************************************)
(* HDGRACEXMLGenerator._prepare_7170_features: the nine categories in the  *)
(* order of the dict, each with its count; one feature is appended at a    *)
(* step.  self.features is kept as its length, the feature appended last   *)
(* and the number of features of each category.                            *)
(***************************************************************************)
FEATURE_COUNT == 7170

RECURSIVE SumOf(_)
SumOf(counts) == IF counts = <<>> THEN 0 ELSE Head(counts) + SumOf(Tail(counts))

\* the "count" of each entry of feature_categories
FeatureCategoryCounts == <<1200, 1000, 900, 800, 700, 650, 620, 600, 600>>

\* feature_index += 1; self.features.append({"index": feature_index, ...})
FeatureAppend ==
    /\ hd.phase = "prepare"
    /\ hd.k <= Len(FeatureCategoryCounts)
    /\ hd.i < FeatureCategoryCounts[hd.k]
    /\ hd' = [hd EXCEPT !.feature_index = @ + 1,
                        !.last = [index |-> hd.feature_index + 1, category |-> hd.k,
                                  position |-> hd.i],
                        !.length = @ + 1,
                        !.counts[hd.k] = @ + 1,
                        !.i = @ + 1]
    /\ UNCHANGED <<mainvars, part, correction, writer>>

\* range(count) is exhausted: the next category
FeatureNextCategory ==
    /\ hd.phase = "prepare"
    /\ hd.k <= Len(FeatureCategoryCounts)
    /\ hd.i >= FeatureCategoryCounts[hd.k]
    /\ hd' = [hd EXCEPT !.k = @ + 1, !.i = 0]
    /\ UNCHANGED <<mainvars, part, correction, writer>>

FeaturesReturn ==
    /\ hd.phase = "prepare"
    /\ hd.k > Len(FeatureCategoryCounts)
    /\ hd' = [hd EXCEPT !.phase = "prepared"]
    /\ UNCHANGED <<mainvars, part, correction, writer>>

FeaturesInit ==
    /\ MainInit(MaxUiElements, MaxMacros, Min(MaxCpu, MaxWorkersCap),
                DefaultTargetFileSize, 1, NoFile, "idle")
    /\ part = InitPart
    /\ correction = InitCorrection
    /\ writer = InitWriter
    /\ hd = [InitRun EXCEPT !.phase = "prepare",
                            !.counts = [k \in 1..Len(FeatureCategoryCounts) |-> 0]]

FeaturesNext == FeatureAppend \/ FeatureNextCategory \/ FeaturesReturn

SpecFeatures == FeaturesInit /\ [][FeaturesNext]_vars

(***************************************************************************)
(* HDGRACEXMLGenerator.run: generate_xml, validate_xml, save_xml, the      *)
(* report.  The document is a root element around one of the texts the     *)
(* corrector is run on; etree.fromstring accepts a text when its tags are  *)
(* balanced, it has one root and the quotes inside each tag are paired.    *)
(***************************************************************************)
\* position of the first occurrence of the character in s, 0 when there is none
IndexOf(s, ch) ==
    LET at == {i \in 1..Len(s) : SubSeq(s, i, i) = ch}
    IN IF at = {} THEN 0 ELSE CHOOSE i \in at : \A j \in at : i <= j

\* s.strip()
RECURSIVE Strip(_)
Strip(s) ==
    IF s = "" THEN s
    ELSE IF IsBlank(SubSeq(s, 1, 1)) THEN Strip(Drop(s, 1))
    ELSE IF IsBlank(SubSeq(s, Len(s), Len(s))) THEN Strip(SubSeq(s, 1, Len(s) - 1))
    ELSE s

QuoteCount(s) == Cardinality({i \in 1..Len(s) : SubSeq(s, i, i) = Quote})

\* the parser on the rest of the text, with the open elements and the number
\* of root elements seen so far
RECURSIVE Parse(_, _, _)
Parse(s, stack, roots) ==
    LET e == IndexOf(s, ">")
        body == SubSeq(s, 2, e - 1)
        empty_tag == Len(body) > 0 /\ SubSeq(body, Len(body), Len(body)) = "/"
        sp == IndexOf(body, " ")
        name == IF sp > 0 THEN SubSeq(body, 1, sp - 1)
                ELSE IF empty_tag THEN SubSeq(body, 1, Len(body) - 1) ELSE body
        lt == IndexOf(s, "<")
        text == IF lt = 0 THEN s ELSE SubSeq(s, 1, lt - 1)
    IN IF s = "" THEN stack = <<>> /\ roots = 1
       ELSE IF StartsWith(s, "<?")
       THEN e > 0 /\ roots = 0 /\ Parse(Drop(s, e), stack, roots)
       ELSE IF StartsWith(s, "</")
       THEN /\ e > 0
            /\ stack # <<>>
            /\ Head(stack) = SubSeq(s, 3, e - 1)
            /\ Parse(Drop(s, e), Tail(stack), roots)
       ELSE IF StartsWith(s, "<")
       THEN /\ e > 0
            /\ name # ""
            /\ QuoteCount(body) % 2 = 0
            /\ (stack = <<>> => roots = 0)
            /\ Parse(Drop(s, e), IF empty_tag THEN stack ELSE <<name>> \o stack,
                     IF stack = <<>> THEN roots + 1 ELSE roots)
       ELSE /\ (stack = <<>> => IsBlank(text))
            /\ Parse(Drop(s, Len(text)), stack, roots)

\* validate_xml: True when etree.fromstring parses the stripped content,
\* False on XMLSyntaxError
ValidateXml(xml_content) == Parse(Strip(xml_content), <<>>, 0)

\* generate_xml: tostring with pretty_print, _apply_corrections, strip, header
HdGenerateXml(source) == XmlDeclaration \o Strip(ApplyCorrections(source))

RunGenerate ==
    /\ hd.phase = "run"
    /\ hd' = [hd EXCEPT !.xml_content = HdGenerateXml(hd.source), !.phase = "validate"]
    /\ UNCHANGED <<mainvars, part, correction, writer>>

\* variant: the content is saved whatever validate_xml returned
SaveWhateverValid(valid) == "save"

\* if not self.validate_xml(xml_content): raise HDGRACEValidationError(...)
AfterValidateXml(valid) == IF valid THEN "save" ELSE "raised"

\* the handler of run logs the exception and raises it again
RunValidate ==
    /\ hd.phase = "validate"
    /\ LET next == AfterValidateXml(ValidateXml(hd.xml_content))
       IN hd' = [hd EXCEPT !.phase = next,
                           !.outcome = IF next = "raised"
                                       THEN "HDGRACEValidationError" ELSE @]
    /\ UNCHANGED <<mainvars, part, correction, writer>>

\* save_xml: open(filepath, 'w'), f.write(xml_content)
RunSaveXml ==
    /\ hd.phase = "save"
    /\ hd' = [hd EXCEPT !.xml_file = <<hd.xml_content>>, !.phase = "report"]
    /\ UNCHANGED <<mainvars, part, correction, writer>>

\* open or write raises in save_xml: the file is not created or is left
\* empty; save_xml and run log the exception and raise it again
RunSaveXmlFails ==
    /\ hd.phase = "save"
    /\ \E f \in {<<>>, <<"">>} :
           hd' = [hd EXCEPT !.xml_file = f, !.phase = "raised", !.outcome = "OSError"]
    /\ UNCHANGED <<mainvars, part, correction, writer>>

\* generate_statistics_report, the report file, return filepath
RunReport ==
    /\ hd.phase = "report"
    /\ hd' = [hd EXCEPT !.report_file = <<"report">>, !.phase = "returned",
                        !.outcome = "filepath"]
    /\ UNCHANGED <<mainvars, part, correction, writer>>

\* open or write of the report file raises
RunReportFails ==
    /\ hd.phase = "report"
    /\ \E f \in {<<>>, <<"">>} :
           hd' = [hd EXCEPT !.report_file = f, !.phase = "raised", !.outcome = "OSError"]
    /\ UNCHANGED <<mainvars, part, correction, writer>>

\* tostring(root, pretty_print=True) of a root around the text
RunSources == {("<r>" \o t) \o "</r>\n" : t \in LookupTexts}

RunInit ==
    /\ MainInit(MaxUiElements, MaxMacros, Min(MaxCpu, MaxWorkersCap),
                DefaultTargetFileSize, 1, NoFile, "idle")
    /\ part = InitPart
    /\ correction = InitCorrection
    /\ writer = InitWriter
    /\ \E source \in RunSources :
           hd = [InitRun EXCEPT !.phase = "run", !.source = source,
                               !.k = Len(FeatureCategoryCounts) + 1,
                               !.counts = FeatureCategoryCounts,
                               !.length = SumOf(FeatureCategoryCounts),
                               !.feature_index = SumOf(FeatureCategoryCounts),
                               !.last = [index |-> SumOf(FeatureCategoryCounts),
                                         category |-> Len(FeatureCategoryCounts),
                                         position |-> FeatureCategoryCounts[
                                                          Len(FeatureCategoryCounts)] - 1]]

RunNext ==
    \/ RunGenerate
    \/ RunValidate
    \/ RunSaveXml
    \/ RunSaveXmlFails
    \/ RunReport
    \/ RunReportFails

SpecRun == RunInit /\ [][RunNext]_vars

(***************************************************************************)
(* Properties.                                                             *)
(***************************************************************************)
AfterMerge == pc \in {"write", "pad", "validate", "report", "done"}

\* the section elements of the merged root, between its header and its trailer
MergedSections == SubSeq(root, Len(RootHeader) + 1, Len(root) - Len(RootTrailer))

TaskOfTag(tag) == CHOOSE t \in TaskNames : SectionTag(t) = tag

Range(seq) == {seq[k] : k \in 1..Len(seq)}

Done == {t \in TaskNames : status[t] = "done"}

Failed == {t \in TaskNames : status[t] = "failed"}

\* C1: the section subtrees are appended to the root in the order in which
\* the tasks are declared, whatever the order in which the tasks complete.
C1_DeclaredOrder ==
    AfterMerge =>
        \A a, b \in 1..Len(MergedSections) :
            a < b => TaskIndex(TaskOfTag(MergedSections[a].tag))
                         < TaskIndex(TaskOfTag(MergedSections[b].tag))

\* C2: runs with the same section definitions and the same seed produce the
\* same merged output: when no task fails, the merged sections are those of
\* the run from the same seed in which the tasks execute one after the other
\* (compared as a set of sections, so without regard to their order).
C2_SameSeedSameOutput ==
    AfterMerge /\ Done = TaskNames =>
        \E seed \in 1..MaxSeed :
            Range(MergedSections)
                = Range(SequentialSections(NextRng(seed), ui_element_count, macro_count))

\* the sequential run is itself a run of the program
C2_SequentialRunReached ==
    /\ AfterMerge /\ Done = TaskNames
    /\ \E seed \in 1..MaxSeed :
           MergedSections = SequentialSections(NextRng(seed), ui_element_count, macro_count)

RECURSIVE ActionCount(_)
ActionCount(macros) ==
    IF macros = <<>> THEN 0 ELSE Len(Head(macros).actions) + ActionCount(Tail(macros))

\* C3: no counter update is lost: once every section task has completed or
\* failed, each statistics counter equals the number of entities of its kind
\* in the section elements the tasks built, under every interleaving of the
\* reads and writes of the increments.
C3_NoLostUpdate ==
    Done \cup Failed = TaskNames =>
        /\ stats.ui_elements_created = Len(subtree["ui_elements"])
        /\ stats.macros_created = Len(subtree["macros"])
        /\ stats.actions_created = ActionCount(subtree["macros"])
        /\ stats.blocks_created = Len(subtree["core_blocks"])
        /\ stats.modules_created = Len(subtree["modules"])

\* every task is done and another task completed before the UI element task,
\* which was started first: the increments of the tasks were interleaved
C3_Witness ==
    /\ Done = TaskNames
    /\ stats.ui_elements_created = ui_element_count
    /\ stats.macros_created = macro_count
    /\ stats.actions_created >= macro_count * MinActions
    /\ stats.blocks_created = Min(MaxCoreBlocks, Len(CoreBlocks))
    /\ stats.modules_created = ui_element_count
    /\ content_elements # <<>>
    /\ content_elements[1][1] # "ui_elements"

\* C4: after the merge the root holds exactly the section elements of the
\* tasks that did not raise, each once; a task that raised contributes
\* nothing, and the file is written with the merged root whatever failed.
C4_ExactlyTheSuccessfulSections ==
    /\ AfterMerge =>
           /\ Len(MergedSections) = Cardinality(Done)
           /\ \A t \in Done :
                  \E k \in 1..Len(MergedSections) :
                      MergedSections[k]
                          = SectionElement(t, ui_element_count, macro_count, subtree[t])
           /\ \A k \in 1..Len(MergedSections) : TaskOfTag(MergedSections[k].tag) \in Done
    /\ pc \in {"pad", "validate", "report"} => file.written /\ file.body = root

\* a task raised, another did not, and the file was written
C4_Witness ==
    /\ pc = "done"
    /\ file.written /\ file.body = root
    /\ Failed # {}
    /\ Done # {}
    /\ Len(MergedSections) = Cardinality(Done)

MissingSectionFinding(t) ==
    CASE t = "ui_elements" -> "missing_ui_elements"
      [] t = "macros" -> "missing_macros"
      [] t = "core_blocks" -> "missing_core_blocks"
      [] t = "modules" -> "missing_modules"
      [] t = "chrome_config" -> "missing_chrome_config"
      [] t = "enterprise" -> "missing_enterprise"

\* C5: when a section task fails and its section is omitted, the validation
\* errors hold, at the end of the run, a finding for that section.
C5_OmissionReported ==
    pc = "done" /\ file.written =>
        \A t \in Failed : MissingSectionFinding(t) \in Range(stats.validation_errors)

RECURSIVE AllActions(_)
AllActions(macros) ==
    IF macros = <<>> THEN {} ELSE Range(Head(macros).actions) \cup AllActions(Tail(macros))

\* the actions generated so far, those of the macro under construction included
GeneratedActions ==
    AllActions(subtree["macros"])
        \cup (IF cur["macros"].tag = "Macro" THEN Range(cur["macros"].actions) ELSE {})

\* C6: every reference from an Action to a UIElement resolves: once both
\* batches are done, the element_id of every action is the id of a UIElement
\* of the run.
C6_ReferenceResolves ==
    status["ui_elements"] = "done" /\ status["macros"] = "done" =>
        \A a \in AllActions(subtree["macros"]) :
            \E e \in Range(subtree["ui_elements"]) : e.id = a.element_id

\* C7: the UIElement reference of every generated action lies between 1 and
\* the run's target ui_element_count, whatever number of UIElements the
\* concurrently running task has generated so far.
C7_ReferenceWithinTarget ==
    \A a \in GeneratedActions : 1 <= a.element_id /\ a.element_id <= ui_element_count

\* an action refers beyond the UIElements generated so far
C7_Witness ==
    /\ status["ui_elements"] = "running"
    /\ \E a \in GeneratedActions :
           /\ a.element_id > Len(subtree["ui_elements"])
           /\ a.element_id <= ui_element_count

RECURSIVE SumSeq(_)
SumSeq(seq) == IF seq = <<>> THEN 0 ELSE Head(seq) + SumSeq(Tail(seq))

\* C8: for every total >= 0 and every non-empty category list the numbers of
\* entities generated per category sum to the total and differ by at most 1.
C8_PartitionSums ==
    part.phase = "done" =>
        /\ SumSeq(part.counts) = part.total
        /\ part.element_id = part.total
        /\ \A a, b \in 1..part.n : part.counts[a] - part.counts[b] <= 1

\* a total that is not a multiple of the number of categories has been partitioned
C8_Witness ==
    /\ part.phase = "done"
    /\ part.total > part.n
    /\ part.total % part.n # 0
    /\ SumSeq(part.counts) = part.total

\* C9: the first (total mod n) categories, in the given order, get
\* (total div n) + 1 entities and all the others (total div n); 3065 over 10
\* categories gives 307 to the first 5 and 306 to the last 5.
C9_RemainderToFirst ==
    part.phase = "done" =>
        /\ \A k \in 1..part.n :
               part.counts[k] = IF k <= part.total % part.n
                                THEN (part.total \div part.n) + 1
                                ELSE part.total \div part.n
        /\ part.total = 3065 /\ part.n = 10 =>
               part.counts = <<307, 307, 307, 307, 307, 306, 306, 306, 306, 306>>

\* 3065 has been partitioned over 10 categories
C9_Witness ==
    /\ part.phase = "done"
    /\ part.total = 3065
    /\ part.n = 10
    /\ part.counts[5] = 307
    /\ part.counts[6] = 306

\* C10: after _pad_to_target_size on a document that contains the closing
\* root marker the file size is at least target_file_size, for every current
\* size and every target.
C10_PaddedSizeReachesTarget ==
    pc \in {"validate", "report", "done"} /\ file.written /\ file.closing > 0 =>
        file.size >= target_file_size

AfterPadding == pc \in {"validate", "report", "done"}

Ceil(a, b) == (a + b - 1) \div b

\* target - current_size as _pad_to_target_size found it
GapBeforePadding ==
    target_file_size - (file.size - file.closing * PaddingLength(file.padding))

\* C11: when the gap between the target and the current size is positive,
\* the number of filler blocks inserted is the gap divided by the size of a
\* filler block, rounded up (whichever of the block size, its payload or its
\* full length is taken as the size of a block).
C11_CeilingBlocks ==
    AfterPadding /\ file.written /\ file.closing > 0 /\ GapBeforePadding > 0 =>
        file.padding \in {Ceil(GapBeforePadding, PadChunkSize),
                          Ceil(GapBeforePadding, PadChunkSize - PadCommentRoom),
                          Ceil(GapBeforePadding, PaddingChunkLength(0))}

\* C12: the padding is a run of comment blocks immediately before the
\* closing tag of the root and nowhere else: the text before it and the
\* closing tag are those of the document before padding, the closing tag
\* still occurs once, and the root, EngineVersion and StructureVersion
\* markers are found in the head of the file as before.
C12_PaddingBeforeClosing ==
    AfterPadding /\ file.written /\ file.closing > 0 =>
        LET before == Serialize(file.body)
        IN /\ file.text = SubSeq(before, 1, Len(before) - 1)
                              \o PaddingChunks(file.padding) \o <<ClosingTag>>
           /\ \A k \in 1..Len(file.text) :
                  file.text[k].kind = "comment" <=>
                      Len(before) <= k /\ k < Len(before) + file.padding
           /\ Occurrences(file.text, ClosingTag) = 1
           /\ LET unpadded == WrittenFile(file.body, 0)
              IN /\ file.has_root = unpadded.has_root
                 /\ file.has_engine = unpadded.has_engine
                 /\ file.has_structure = unpadded.has_structure
           /\ file.has_root /\ file.has_engine /\ file.has_structure

\* two filler blocks have been inserted
C12_Witness ==
    /\ pc = "validate"
    /\ file.written
    /\ file.closing = 1
    /\ file.padding >= 2
    /\ file.text[Len(file.text) - 1].kind = "comment"

AfterValidation == pc \in {"report", "done"}

\* the checks of validate_xml_output that fail on file f
FailingChecks(f, uic) ==
    {c \in {"file_size", "root_element", "engine_version", "structure_version"} :
         \/ c = "file_size" /\ BelowMinSize(f.size, uic)
         \/ c = "root_element" /\ ~f.has_root
         \/ c = "engine_version" /\ ~f.has_engine
         \/ c = "structure_version" /\ ~f.has_structure}

\* C13: validate_xml_output returns False only at production scale
\* (ui_element_count >= 3000) with a failed check; at test scale a failed
\* size, root-marker or version-marker check does not make it return False.
C13_FalseOnlyAtProduction ==
    AfterValidation /\ file.written /\ result = "false" =>
        IsProduction(ui_element_count) /\ FailingChecks(file, ui_element_count) # {}

\* C14: validate_xml_output does not raise and the findings one call appends
\* correspond one-to-one to the checks (size, root, EngineVersion,
\* StructureVersion) that fail on the file.
C14_FindingPerFailingCheck ==
    AfterValidation /\ file.written =>
        /\ result \in {"true", "false"}
        /\ Range(stats.validation_errors) = FailingChecks(file, ui_element_count)
        /\ Len(stats.validation_errors) = Cardinality(FailingChecks(file, ui_element_count))

Calls == 1..Len(correction.outputs)

\* C16: apply_grammar_corrections is idempotent: called on a text it
\* returned, it returns that text; 'enabled=true' becomes 'enabled="true"',
\* which a second call returns unchanged.
C16_GrammarIdempotent ==
    \A j \in Calls :
        ~correction.raised[j] =>
            /\ j > 1 /\ ~correction.raised[j - 1] =>
                   correction.outputs[j] = correction.outputs[j - 1]
            /\ correction.inputs[j] = "enabled=true" =>
                   correction.outputs[j] = Quoted("enabled", "true")

\* 'enabled=true' has been corrected and the result corrected again
C16_Witness ==
    /\ Len(correction.outputs) = 2
    /\ correction.inputs = <<"enabled=true", Quoted("enabled", "true")>>
    /\ correction.outputs = <<Quoted("enabled", "true"), Quoted("enabled", "true")>>
    /\ correction.raised = <<FALSE, FALSE>>

\* C18: a call of apply_grammar_corrections in which an exception occurs
\* returns, and what it returns is its input text, whatever had been
\* substituted before the exception.
C18_ExceptionReturnsOriginal ==
    \A j \in Calls : correction.raised[j] => correction.outputs[j] = correction.inputs[j]

\* the exception occurred after a substitution had been made
C18_Witness ==
    /\ correction.phase = "returned"
    /\ correction.raised[Len(correction.raised)]
    /\ correction.corrections_applied > 0
    /\ correction.corrected_text # correction.text
    /\ correction.outputs[Len(correction.outputs)] = correction.text

\* the counter before call j
CounterBefore(j) == IF j = 1 THEN 0 ELSE correction.counts[j - 1]

\* C19: a call of apply_grammar_corrections that returns normally adds to
\* grammar_corrections_applied the number of substitutions made in the text
\* (each substitution lengthens the text by its two quotes), 0 when the text
\* is returned as it was; the counter never decreases.
C19_CounterCountsSubstitutions ==
    /\ \A j \in Calls :
           /\ correction.counts[j] >= CounterBefore(j)
           /\ ~correction.raised[j] =>
                  /\ 2 * (correction.counts[j] - CounterBefore(j))
                         = Len(correction.outputs[j]) - Len(correction.inputs[j])
                  /\ correction.outputs[j] = correction.inputs[j] =>
                         correction.counts[j] = CounterBefore(j)
    /\ correction.outputs # <<>> =>
           stats.grammar_corrections_applied = correction.counts[Len(correction.counts)]

\* two substitutions in the first call, none in the second
C19_Witness ==
    /\ correction.raised = <<FALSE, FALSE>>
    /\ correction.counts = <<2, 2>>
    /\ Len(correction.outputs[1]) = Len(correction.inputs[1]) + 4
    /\ correction.outputs[2] = correction.inputs[2]

\* C15: _apply_corrections is idempotent under the built-in rule table:
\* called on a text it returned, it returns that text.
C15_LookupIdempotent ==
    \A j \in Calls : j > 1 => correction.outputs[j] = correction.outputs[j - 1]

\* the text without the characters inside its attribute values: element
\* names, attribute names, the quotes of the attributes and the text content
RECURSIVE OutsideAttributeValues(_, _)
OutsideAttributeValues(s, mode) ==
    IF s = "" THEN ""
    ELSE LET c == SubSeq(s, 1, 1)
             next == CASE mode = "content" /\ c = "<" -> "tag"
                       [] mode = "tag" /\ c = ">" -> "content"
                       [] mode = "tag" /\ c = Quote -> "value"
                       [] mode = "value" /\ c = Quote -> "tag"
                       [] OTHER -> mode
         IN (IF mode = "value" /\ next = "value" THEN "" ELSE c)
                \o OutsideAttributeValues(Drop(s, 1), next)

\* C17: _apply_corrections changes only characters inside attribute values:
\* element names, attribute names and text content are the same before and
\* after, also when the text content contains quote characters.
C17_OnlyAttributeValuesChange ==
    \A j \in Calls :
        OutsideAttributeValues(correction.outputs[j], "content")
            = OutsideAttributeValues(correction.inputs[j], "content")

\* C20: generate_xml returns a boolean whichever step fails (a section
\* task, the writing of the file, the padding, the validation, the reports),
\* and False when the writing of the output file fails.
C20_AlwaysBoolean ==
    /\ result \in {"none", "true", "false"}
    /\ pc = "done" =>
           /\ result \in {"true", "false"}
           /\ file.body # root => result = "false"
    /\ pc # "done" /\ result # "none" => pc = "report"

\* a section task failed, the writing of the file failed, False was returned
C20_Witness ==
    /\ pc = "done"
    /\ Failed # {}
    /\ file.written
    /\ file.body # root
    /\ result = "false"

\* C21: whenever generate_xml has returned False, the findings list
\* stats['validation_errors'] is not empty.
C21_FalseHasFinding ==
    pc = "done" /\ result = "false" => stats.validation_errors # <<>>

\* C22: when the validation of a production-scale run fails, generate_xml
\* goes on to the reports and returns False; the written file is not touched
\* by the validation or by anything after it, and the reports are generated
\* and saved (unless generating or saving them fails itself).
C22_FailedValidationKeepsFileAndReports ==
    [][/\ (pc = "validate" /\ IsProduction(ui_element_count) /\ result' = "false") =>
              (pc' = "report" /\ file' = file /\ reports' = "none")
       /\ (pc = "report" /\ IsProduction(ui_element_count) /\ result = "false") =>
              /\ pc' = "done"
              /\ file' = file
              /\ result' = "false"
              /\ reports' \in {"saved", "not_saved", "not_generated"}
              /\ (reports' # "saved" => stats' = stats)]_vars

\* a production run whose validation failed has returned False, the file
\* is there and the reports are saved
C22_Witness ==
    /\ pc = "done"
    /\ IsProduction(ui_element_count)
    /\ result = "false"
    /\ stats.validation_errors = <<"file_size">>
    /\ file.written /\ file.text # <<>> /\ file.padding > 0
    /\ reports = "saved"

\* the successive positions of the main thread
PhaseOrder ==
    {<<"submit", "submitted">>, <<"submitted", "collect">>, <<"collect", "merge">>,
     <<"merge", "write">>, <<"write", "pad">>, <<"pad", "validate">>,
     <<"validate", "report">>, <<"report", "done">>, <<"write", "done">>}

\* C23: nothing is merged into the root before every submitted task has
\* completed or failed; the root is merged, the file written, padded and
\* validated in this order, each step starting from what the step before
\* it left, and the validation reads the file as the padding step left it.
C23_PhasesInOrder ==
    /\ [](/\ pc \in {"merge", "write", "pad", "validate", "report", "done"} =>
                Finished = TaskNames
          /\ root # RootHeader =>
                /\ Finished = TaskNames
                /\ pc \in {"write", "pad", "validate", "report", "done"}
                /\ root = (RootHeader \o Elements(content_elements)) \o RootTrailer
          /\ file # NoFile => pc \in {"pad", "validate", "report", "done"}
          /\ pc \in {"pad", "validate", "report"} => file = WrittenFile(root, DocumentLength(root))
          /\ (result # "none" \/ stats.validation_errors # <<>>) =>
                pc \in {"report", "done"})
    /\ [][/\ pc' # pc => <<pc, pc'>> \in PhaseOrder
          /\ pc = "pad" =>
                file' = IF IsProduction(ui_element_count)
                        THEN PadToTargetSize(WrittenFile(root, DocumentLength(root)),
                                             target_file_size)
                        ELSE WrittenFile(root, DocumentLength(root))
          /\ pc = "validate" =>
                /\ file' = file
                /\ result' = IF ValidateXmlOutput(file, ui_element_count).ok
                              THEN "true" ELSE "false"]_vars

\* a task was still running when the main thread entered as_completed, and
\* the run has gone through every phase
C23_Witness ==
    /\ pc = "done"
    /\ Len(content_elements) = Len(Tasks)
    /\ content_elements[1][1] # Tasks[1]
    /\ file.written /\ file.body = root
    /\ result = "true"

\* C26: when the macros task of a production run has returned, the number
\* of actions it has counted lies between 61,300 and 122,600.
C26_ActionTotalInRange ==
    (status["macros"] = "done" /\ macro_count = DefaultUiElementCount) =>
        /\ stats.macros_created = macro_count
        /\ MinActionCount <= stats.actions_created
        /\ stats.actions_created <= MaxActionCount

\* the UIElement nodes of a root: the children of its UIElements sections
UiElementNodes(tree) ==
    UNION {{section.children[k] : k \in 1..Len(section.children)} :
               section \in {tree.children[j] : j \in {i \in 1..Len(tree.children) :
                                                        tree.children[i].tag = "UIElements"}}}

\* element.get(name)
AttributeOf(e, name) ==
    LET at == {k \in 1..Len(e.attrs) : e.attrs[k][1] = name}
    IN IF at = {} THEN "" ELSE e.attrs[CHOOSE k \in at : TRUE][2]

\* needle in text
Contains(text, needle) ==
    \E i \in 1..(Len(text) - Len(needle) + 1) :
        SubSeq(text, i, i + Len(needle) - 1) = needle

WrittenText == Concat(writer.written)

\* C24: every UIElement of the tree carries visible, data-visible and
\* aria-visible equal to "true", before and after the indentation, and the
\* start tag of every one of them stands in the written file with the three
\* attributes equal to "true".
C24_TripleVisibility ==
    \A u \in UiElementNodes(writer.root) :
        /\ AttributeOf(u, "visible") = "true"
        /\ AttributeOf(u, "data-visible") = "true"
        /\ AttributeOf(u, "aria-visible") = "true"
        /\ writer.phase = "closed" =>
               /\ Contains(WrittenText, "<UIElement" \o AttributesToString(u.attrs) \o ">")
               /\ Contains(AttributesToString(u.attrs),
                           " " \o Quoted("visible", "true") \o " "
                               \o Quoted("data-visible", "true") \o " "
                               \o Quoted("aria-visible", "true") \o " ")

\* a UI element with a button has been written, indented, in several chunks
C24_Witness ==
    /\ writer.phase = "closed"
    /\ writer.has_indent
    /\ Len(writer.written) > 1
    /\ \E u \in UiElementNodes(writer.root) :
           /\ AttributeOf(u, "category") = UiCategories[2]
           /\ \E k \in 1..Len(u.children) : u.children[k].tag = "Button"

\* C27: the text written after the declaration is what
\* apply_grammar_corrections returned for the serialization of the root.
C27_WrittenTextIsCorrected ==
    writer.phase = "closed" =>
        /\ writer.corrected_xml = CorrectFrom(writer.xml_string, 1).text
        /\ WrittenText = writer.corrected_xml

\* all but the last chunk are chunk_size long, the last one is not empty
\* and not longer
ChunkLengths(written, chunk_size) ==
    \A k \in 1..Len(written) :
        /\ Len(written[k]) >= 1
        /\ Len(written[k]) <= chunk_size
        /\ k < Len(written) => Len(written[k]) = chunk_size

\* C28: the chunks written so far are consecutive slices of the text, at
\* most chunk_size long and all but the last exactly chunk_size long; put
\* end to end they are the text up to the position of the loop, and the
\* whole text when the loop is over.
C28_ChunksAreTheText ==
    /\ writer.phase \in {"write", "closed"} =>
           /\ ChunkLengths(writer.written, writer.chunk_size)
           /\ WrittenText = SubSeq(writer.final_xml, 1,
                                   Min(writer.i, Len(writer.final_xml)))
           /\ writer.i = Len(writer.written) * writer.chunk_size
    /\ writer.phase = "closed" =>
           /\ WrittenText = writer.final_xml
           /\ (Len(writer.written) - 1) * writer.chunk_size < Len(writer.final_xml)
                  \/ writer.final_xml = ""

\* a text of exactly two chunks has been written
C28_Witness ==
    /\ writer.phase = "closed"
    /\ writer.chunk_size > 1
    /\ Len(writer.final_xml) = 2 * writer.chunk_size
    /\ Len(writer.written) = 2

\* C29: once the root has been serialized, no step changes the tree.
C29_TreeReadOnly ==
    [][writer.phase \in {"indent", "write", "closed"} => writer'.root = writer.root]_vars

\* C25: the features are numbered 1, 2, ... in the order in which they are
\* appended, and when _prepare_7170_features returns there are FEATURE_COUNT
\* of them: the counts of the categories sum to 7170 and the last index is
\* 7170.
C25_ExactlyFeatureCount ==
    /\ hd.last.index = hd.length
    /\ SumOf(hd.counts) = hd.length
    /\ hd.phase = "prepared" =>
           /\ hd.counts = FeatureCategoryCounts
           /\ hd.length = FEATURE_COUNT

\* C30: the XML file holds exactly the content validate_xml has accepted,
\* and the report is written after it; when validate_xml rejects the content,
\* run raises HDGRACEValidationError and writes neither file.
C30_SavedOnlyWhenValid ==
    /\ hd.xml_file # <<>> =>
           /\ ValidateXml(hd.xml_content)
           /\ hd.xml_file = <<hd.xml_content>> \/ (hd.phase = "raised" /\ hd.outcome = "OSError")
    /\ hd.report_file # <<>> => hd.xml_file = <<hd.xml_content>>
    /\ (hd.phase \in {"save", "report", "returned", "raised"}
           /\ ~ValidateXml(hd.xml_content)) =>
           /\ hd.phase = "raised"
           /\ hd.outcome = "HDGRACEValidationError"
           /\ hd.xml_file = <<>>
           /\ hd.report_file = <<>>

\* the corrector has broken the document, validate_xml has rejected it, run
\* has raised and no file is written
C30_Witness ==
    /\ hd.phase = "raised"
    /\ hd.outcome = "HDGRACEValidationError"
    /\ ValidateXml(XmlDeclaration \o Strip(hd.source))
    /\ ~ValidateXml(hd.xml_content)
    /\ hd.xml_file = <<>> /\ hd.report_file = <<>>

====
